---- MODULE Spec2Model ----
(***************************************************************************)
(* Model of the operation transform of stellar-etl                         *)
(* (TransformOperation and extractOperationDetails with their helpers).    *)
(*                                                                         *)
(* The transform is a pure function of (operation, operationIndex,         *)
(* transaction, ledgerSeq).  The state machine draws one input in Init     *)
(* and the single action CallTransformOperation applies the function to    *)
(* it.  Spec draws every kind of operation body; SpecSponsorship draws     *)
(* end-sponsoring operations among sibling operations; SpecPathPayment     *)
(* draws the two path payments against every kind of execution result.     *)
(*                                                                         *)
(* Conventions                                                             *)
(*  - a Go string is a sequence of one-character strings, "" is << >>;     *)
(*  - a Go slice is a record [isNil, elems], so that a nil slice and an    *)
(*    empty slice are different values;                                    *)
(*  - a float64 that holds a decimal with 7 fractional digits is the pair  *)
(*    <<whole, frac>> of its integer part and its 7-digit fraction;        *)
(*  - an account id / muxed account is [ed25519, id]: ed25519 = 0 is an    *)
(*    account whose key type is unknown (its address cannot be rendered),  *)
(*    id > 0 is the multiplexing id of a muxed account;                    *)
(*  - a call ends in one of three ways: a record ("ok"), an error value    *)
(*    ("error") or a run-time panic ("panic").                             *)
(***************************************************************************)
EXTENDS Integers, Sequences, FiniteSets, TLC

\* ------------------------------------------------------------------ bounds
NumAccounts == 2
MaxSiblings == 2
MaxResults == 2
MaxOperationIndex == 1
MaxPathLen == 1
MaxFlag == 8

\* ledger sequences and transaction indexes of the identifier comparison
MaxLedgerSeq == 2

MaxTransactionIndex == 2

\* the largest value drawn for a word of a 128-bit amount
MaxWord == 1000000

\* ------------------------------------------------- xdr OperationType tags
OperationTypeCreateAccount == 0
OperationTypePayment == 1
OperationTypePathPaymentStrictReceive == 2
OperationTypeManageSellOffer == 3
OperationTypeCreatePassiveSellOffer == 4
OperationTypeSetOptions == 5
OperationTypeChangeTrust == 6
OperationTypeAllowTrust == 7
OperationTypeAccountMerge == 8
OperationTypeInflation == 9
OperationTypeManageData == 10
OperationTypeBumpSequence == 11
OperationTypeManageBuyOffer == 12
OperationTypePathPaymentStrictSend == 13
OperationTypeCreateClaimableBalance == 14
OperationTypeClaimClaimableBalance == 15
OperationTypeBeginSponsoringFutureReserves == 16
OperationTypeEndSponsoringFutureReserves == 17
OperationTypeRevokeSponsorship == 18
OperationTypeClawback == 19
OperationTypeClawbackClaimableBalance == 20
OperationTypeSetTrustLineFlags == 21

\* a type tag of the wire format that the dispatcher has no arm for
OperationTypeLiquidityPoolDeposit == 22

SupportedTypes == 0 .. 21

\* xdr.AccountFlags and xdr.TrustLineFlags bit values
AccountFlagsAuthRequiredFlag == 1
AccountFlagsAuthRevocableFlag == 2
AccountFlagsAuthImmutableFlag == 4
TrustLineFlagsAuthorizedFlag == 1
TrustLineFlagsAuthorizedToMaintainLiabilitiesFlag == 2
TrustLineFlagsTrustlineClawbackEnabledFlag == 4

\* one unit of an asset is 10^7 stroops
StroopsPerUnit == 10000000

\* ----------------------------------------------------------- Go strings
EmptyString == << >>

Digits == <<"0", "1", "2", "3", "4", "5", "6", "7", "8", "9">>

HexDigits == <<"0", "1", "2", "3", "4", "5", "6", "7", "8", "9", "a", "b", "c", "d", "e", "f">>

Base64Alphabet == <<"A", "B", "C", "D", "E", "F", "G", "H", "I", "J", "K", "L", "M", "N", "O", "P", "Q", "R", "S", "T", "U", "V", "W", "X", "Y", "Z", "a", "b", "c", "d", "e", "f", "g", "h", "i", "j", "k", "l", "m", "n", "o", "p", "q", "r", "s", "t", "u", "v", "w", "x", "y", "z", "0", "1", "2", "3", "4", "5", "6", "7", "8", "9", "+", "/">>

RECURSIVE FormatNat(_)
\* fmt.Sprintf("%d", n) for n >= 0
FormatNat(n) ==
  IF n < 10 THEN <<Digits[n + 1]>>
  ELSE FormatNat(n \div 10) \o <<Digits[(n % 10) + 1]>>

RECURSIVE PadLeft(_, _)
PadLeft(s, width) == IF Len(s) >= width THEN s ELSE PadLeft(<<"0">> \o s, width)

RECURSIVE HexEncode(_)
\* lower-case hex of a byte sequence
HexEncode(bytes) ==
  IF bytes = << >> THEN << >>
  ELSE <<HexDigits[(Head(bytes) \div 16) + 1], HexDigits[(Head(bytes) % 16) + 1]>>
       \o HexEncode(Tail(bytes))

RECURSIVE Base64Encode(_)
\* base64.StdEncoding.EncodeToString: 3 bytes -> 4 characters, "=" padding
Base64Encode(bytes) ==
  IF bytes = << >> THEN << >>
  ELSE IF Len(bytes) = 1 THEN
    <<Base64Alphabet[(bytes[1] \div 4) + 1],
      Base64Alphabet[((bytes[1] % 4) * 16) + 1], "=", "=">>
  ELSE IF Len(bytes) = 2 THEN
    <<Base64Alphabet[(bytes[1] \div 4) + 1],
      Base64Alphabet[((bytes[1] % 4) * 16 + (bytes[2] \div 16)) + 1],
      Base64Alphabet[((bytes[2] % 16) * 4) + 1], "=">>
  ELSE
    <<Base64Alphabet[(bytes[1] \div 4) + 1],
      Base64Alphabet[((bytes[1] % 4) * 16 + (bytes[2] \div 16)) + 1],
      Base64Alphabet[((bytes[2] % 16) * 4 + (bytes[3] \div 64)) + 1],
      Base64Alphabet[(bytes[3] % 64) + 1]>>
    \o Base64Encode(SubSeq(bytes, 4, Len(bytes)))

\* ------------------------------------------------------------- Go slices
NilSlice == [isNil |-> TRUE, elems |-> << >>]

\* make([]T, 0)
EmptySlice == [isNil |-> FALSE, elems |-> << >>]

\* append(s, x): the result is never nil
AppendSlice(s, x) == [isNil |-> FALSE, elems |-> Append(s.elems, x)]

\* ---------------------------------------------------------------- numbers
ZeroReal == <<0, 0>>

\* utils.ConvertStroopValueToReal: the exact decimal stroops / 10^7
ConvertStroopValueToReal(stroops) == <<stroops \div StroopsPerUnit, stroops % StroopsPerUnit>>

\* amount.String: the same decimal, printed with 7 fractional digits
AmountString(stroops) ==
  FormatNat(stroops \div StroopsPerUnit) \o <<".">>
    \o PadLeft(FormatNat(stroops % StroopsPerUnit), 7)

\* strconv.ParseFloat(op.Price.String(), 64): the rational n/d printed with 7
\* fractional digits, the last one rounded to nearest (halves away from
\* zero), then parsed; n >= 0 and d > 0
ParsedPrice(price) ==
  LET scaled == (2 * price.N * StroopsPerUnit + price.D) \div (2 * price.D)
  IN <<scaled \div StroopsPerUnit, scaled % StroopsPerUnit>>

\* --------------------------------------------------------------- accounts
\* the operation's SourceAccount pointer is nil
NoAccount == [ed25519 |-> -1, id |-> 0]

AddressTable == << <<"G", "A">>, <<"G", "B">>, <<"G", "C">>, <<"G", "D">> >>

AccountKeys == 1 .. NumAccounts

\* MuxedAccount.ToAccountId / AccountId: the multiplexing id is dropped
ToAccountId(account) == [ed25519 |-> account.ed25519, id |-> 0]

AddressDecodable(account) == account.ed25519 \in 1 .. Len(AddressTable)

\* AccountId.Address() of an account whose key type is known
Address(account) == AddressTable[account.ed25519]

\* utils.GetAccountAddressFromMuxedAccount: the address of the underlying
\* account id, or an error when the key type is unknown
GetAccountAddressFromMuxedAccount(account) ==
  IF AddressDecodable(ToAccountId(account))
  THEN [ok |-> TRUE, address |-> Address(ToAccountId(account))]
  ELSE [ok |-> FALSE, address |-> EmptyString]

\* ----------------------------------------------------------------- assets
AssetTypeAssetTypeNative == 0
AssetTypeAssetTypeCreditAlphanum4 == 1
AssetTypeAssetTypeCreditAlphanum12 == 2

\* an asset type the extraction does not know
AssetTypeUnknown == 3

NativeAsset == [Type |-> AssetTypeAssetTypeNative, Code |-> EmptyString, Issuer |-> NoAccount]

CreditAsset(type, code, issuerKey) ==
  [Type |-> type, Code |-> code, Issuer |-> [ed25519 |-> issuerKey, id |-> 0]]

UsdAsset == CreditAsset(AssetTypeAssetTypeCreditAlphanum4, <<"U", "S", "D">>, 1)

LongAsset == CreditAsset(AssetTypeAssetTypeCreditAlphanum12, <<"L", "O", "N", "G", "C">>, NumAccounts)

UnknownAsset == CreditAsset(AssetTypeUnknown, <<"X">>, 1)

\* xdr.AssetTypeToString
AssetTypeToString(type) ==
  CASE type = AssetTypeAssetTypeNative -> "native"
    [] type = AssetTypeAssetTypeCreditAlphanum4 -> "credit_alphanum4"
    [] type = AssetTypeAssetTypeCreditAlphanum12 -> "credit_alphanum12"
    [] OTHER -> ""

\* asset.Extract(&assetType, &code, &issuer): the three strings of the asset;
\* code and issuer stay "" for the native asset; an error for an asset whose
\* type is not one of the three known ones
AssetExtract(asset) ==
  IF asset.Type = AssetTypeAssetTypeNative
  THEN [ok |-> TRUE, assetType |-> AssetTypeToString(asset.Type),
        code |-> EmptyString, issuer |-> EmptyString]
  ELSE IF asset.Type \in {AssetTypeAssetTypeCreditAlphanum4, AssetTypeAssetTypeCreditAlphanum12}
  THEN [ok |-> TRUE, assetType |-> AssetTypeToString(asset.Type),
        code |-> asset.Code, issuer |-> Address(asset.Issuer)]
  ELSE [ok |-> FALSE, assetType |-> "", code |-> EmptyString, issuer |-> EmptyString]

\* asset.StringCanonical(): "native" or "CODE:ISSUER"
StringCanonical(asset) ==
  IF asset.Type = AssetTypeAssetTypeNative
  THEN <<"n", "a", "t", "i", "v", "e">>
  ELSE asset.Code \o <<":">> \o Address(asset.Issuer)

\* AssetCode.ToAsset(issuer) of allow_trust: the code with the given issuer
ToAsset(assetCode, issuer) ==
  [Type |-> assetCode.Type, Code |-> assetCode.Code, Issuer |-> issuer]

\* ---------------------------------------------------------------- Details
Path(assetType, issuer, code) ==
  [AssetType |-> assetType, AssetIssuer |-> issuer, AssetCode |-> code]

ZeroPrice == [Numerator |-> 0, Denominator |-> 0]

\* Details{}: every field at the zero value of its type
ZeroDetails ==
  [Account |-> EmptyString, AccountID |-> EmptyString, Amount |-> ZeroReal,
   AssetCode |-> EmptyString, AssetIssuer |-> EmptyString, AssetType |-> "",
   Authorize |-> FALSE, BalanceID |-> EmptyString, BeginSponsor |-> EmptyString,
   BumpTo |-> EmptyString,
   BuyingAssetCode |-> EmptyString, BuyingAssetIssuer |-> EmptyString, BuyingAssetType |-> "",
   ClaimableBalanceID |-> EmptyString, Claimants |-> NilSlice,
   ClearFlags |-> NilSlice, ClearFlagsString |-> NilSlice,
   DataAccountID |-> EmptyString, DataName |-> EmptyString, DestinationMin |-> EmptyString,
   From |-> EmptyString, Funder |-> EmptyString, HighThreshold |-> 0,
   HomeDomain |-> EmptyString, InflationDest |-> EmptyString, Into |-> EmptyString,
   Limit |-> ZeroReal, LowThreshold |-> 0, MasterKeyWeight |-> 0, MedThreshold |-> 0,
   Name |-> EmptyString, OfferID |-> 0, Path |-> NilSlice, Price |-> ZeroReal,
   PriceR |-> ZeroPrice,
   SellingAssetCode |-> EmptyString, SellingAssetIssuer |-> EmptyString, SellingAssetType |-> "",
   SetFlags |-> NilSlice, SetFlagsString |-> NilSlice,
   SignerAccountID |-> EmptyString, SignerKey |-> EmptyString, SignerWeight |-> 0,
   SourceAmount |-> ZeroReal,
   SourceAssetCode |-> EmptyString, SourceAssetIssuer |-> EmptyString, SourceAssetType |-> "",
   SourceMax |-> ZeroReal, SponsoredID |-> EmptyString, StartingBalance |-> ZeroReal,
   To |-> EmptyString, TrustlineAccountID |-> EmptyString, TrustlineAsset |-> EmptyString,
   Trustee |-> EmptyString, Trustor |-> EmptyString, Value |-> EmptyString]

\* ------------------------------------------------------ outcomes of a call
\* error values: the text is named by msg; hasIndex / hasId tell whether the
\* formatted text contains the operation index / the operation id
Error(msg, hasIndex, hasId) == [msg |-> msg, hasIndex |-> hasIndex, hasId |-> hasId]

NoError == Error("", FALSE, FALSE)

\* the error utils.GetAccountAddressFromMuxedAccount returns
AddressError == Error("Unknown account id type", FALSE, FALSE)

\* the error asset.Extract returns
ExtractError == Error("can't extract type", FALSE, FALSE)

\* the error xdr.MarshalHex returns, wrapped by errors.Wrapf(err, "in claimable balance")
MarshalError == Error("in claimable balance", FALSE, FALSE)

\* trace names the steps of the call that read the transaction's execution
\* results or scanned its sibling operations
Returned(details) == [status |-> "ok", details |-> details, err |-> NoError, trace |-> {}]

\* return Details{}, err
Failed(err) == [status |-> "error", details |-> ZeroDetails, err |-> err, trace |-> {}]

\* a run-time panic: nothing is returned
Panicked(what) ==
  [status |-> "panic", details |-> ZeroDetails, err |-> Error(what, FALSE, FALSE), trace |-> {}]

WithTrace(result, steps) == [result EXCEPT !.trace = @ \cup steps]

\* ------------------------------------------------- transaction accessors
\* transaction.Result.Successful()
Successful(transaction) == transaction.Successful

\* transaction.Result.OperationResults(): the per-operation results and
\* whether the transaction result holds any
OperationResults(transaction) ==
  IF transaction.ResultsOk
  THEN [ok |-> TRUE, results |-> transaction.Results]
  ELSE [ok |-> FALSE, results |-> << >>]

\* transaction.Envelope.Operations()
Operations(transaction) == transaction.Operations

\* operation.Body.GetXxxOp(): the payload of the wanted kind, when the body
\* holds it
HoldsPayload(body, type) == body.arm = type

\* ------------------------------------------------------------------ helpers
getOperationSourceAccount(operation, transaction) ==
  IF operation.SourceAccount # NoAccount
  THEN operation.SourceAccount
  ELSE transaction.SourceAccount

\* addAssetDetailsToOperationDetails whose "selling" arm writes the code and
\* issuer of the buying slot
addAssetDetailsToOperationDetailsCrossed(operationDetails, asset, prefix) ==
  LET x == AssetExtract(asset)
      nonNative == asset.Type # AssetTypeAssetTypeNative
  IN IF ~x.ok THEN [ok |-> FALSE, details |-> operationDetails]
     ELSE [ok |-> TRUE, details |->
       CASE prefix = "buying" ->
              [operationDetails EXCEPT
                 !.BuyingAssetType = x.assetType,
                 !.BuyingAssetIssuer = IF nonNative THEN x.issuer ELSE @,
                 !.BuyingAssetCode = IF nonNative THEN x.code ELSE @]
         [] prefix = "selling" ->
              [operationDetails EXCEPT
                 !.SellingAssetType = x.assetType,
                 !.BuyingAssetIssuer = IF nonNative THEN x.issuer ELSE @,
                 !.BuyingAssetCode = IF nonNative THEN x.code ELSE @]
         [] prefix = "source" ->
              [operationDetails EXCEPT
                 !.SourceAssetType = x.assetType,
                 !.SourceAssetIssuer = IF nonNative THEN x.issuer ELSE @,
                 !.SourceAssetCode = IF nonNative THEN x.code ELSE @]
         [] OTHER ->
              [operationDetails EXCEPT
                 !.AssetType = x.assetType,
                 !.AssetIssuer = IF nonNative THEN x.issuer ELSE @,
                 !.AssetCode = IF nonNative THEN x.code ELSE @]]

addAssetDetailsToOperationDetails(operationDetails, asset, prefix) ==
  LET x == AssetExtract(asset)
      nonNative == asset.Type # AssetTypeAssetTypeNative
  IN IF ~x.ok THEN [ok |-> FALSE, details |-> operationDetails]
     ELSE [ok |-> TRUE, details |->
       CASE prefix = "buying" ->
              [operationDetails EXCEPT
                 !.BuyingAssetType = x.assetType,
                 !.BuyingAssetIssuer = IF nonNative THEN x.issuer ELSE @,
                 !.BuyingAssetCode = IF nonNative THEN x.code ELSE @]
         [] prefix = "selling" ->
              [operationDetails EXCEPT
                 !.SellingAssetType = x.assetType,
                 !.SellingAssetIssuer = IF nonNative THEN x.issuer ELSE @,
                 !.SellingAssetCode = IF nonNative THEN x.code ELSE @]
         [] prefix = "source" ->
              [operationDetails EXCEPT
                 !.SourceAssetType = x.assetType,
                 !.SourceAssetIssuer = IF nonNative THEN x.issuer ELSE @,
                 !.SourceAssetCode = IF nonNative THEN x.code ELSE @]
         [] OTHER ->
              [operationDetails EXCEPT
                 !.AssetType = x.assetType,
                 !.AssetIssuer = IF nonNative THEN x.issuer ELSE @,
                 !.AssetCode = IF nonNative THEN x.code ELSE @]]

\* flag & bit # 0, for a bit that is a power of two
HasBit(flag, bit) == (flag \div bit) % 2 = 1

addTrustLineFlagToDetails(operationDetails, f, prefix) ==
  LET n1 == IF HasBit(f, TrustLineFlagsAuthorizedFlag)
            THEN AppendSlice(NilSlice, TrustLineFlagsAuthorizedFlag) ELSE NilSlice
      s1 == IF HasBit(f, TrustLineFlagsAuthorizedFlag)
            THEN AppendSlice(NilSlice, "authorized") ELSE NilSlice
      n2 == IF HasBit(f, TrustLineFlagsAuthorizedToMaintainLiabilitiesFlag)
            THEN AppendSlice(n1, TrustLineFlagsAuthorizedToMaintainLiabilitiesFlag) ELSE n1
      s2 == IF HasBit(f, TrustLineFlagsAuthorizedToMaintainLiabilitiesFlag)
            THEN AppendSlice(s1, "authorized_to_maintain_liabilities") ELSE s1
      n == IF HasBit(f, TrustLineFlagsTrustlineClawbackEnabledFlag)
           THEN AppendSlice(n2, TrustLineFlagsTrustlineClawbackEnabledFlag) ELSE n2
      s == IF HasBit(f, TrustLineFlagsTrustlineClawbackEnabledFlag)
           THEN AppendSlice(s2, "clawback_enabled") ELSE s2
  IN CASE prefix = "set" -> [operationDetails EXCEPT !.SetFlags = n, !.SetFlagsString = s]
       [] prefix = "clear" -> [operationDetails EXCEPT !.ClearFlags = n, !.ClearFlagsString = s]
       [] OTHER -> operationDetails

\* addOperationFlagToOperationDetails whose "clear" arm writes the set fields
addOperationFlagToOperationDetailsClearIntoSet(operationDetails, flag, prefix) ==
  LET n1 == IF HasBit(flag, AccountFlagsAuthRequiredFlag)
            THEN AppendSlice(EmptySlice, AccountFlagsAuthRequiredFlag) ELSE EmptySlice
      s1 == IF HasBit(flag, AccountFlagsAuthRequiredFlag)
            THEN AppendSlice(EmptySlice, "auth_required") ELSE EmptySlice
      n2 == IF HasBit(flag, AccountFlagsAuthRevocableFlag)
            THEN AppendSlice(n1, AccountFlagsAuthRevocableFlag) ELSE n1
      s2 == IF HasBit(flag, AccountFlagsAuthRevocableFlag)
            THEN AppendSlice(s1, "auth_revocable") ELSE s1
      intFlags == IF HasBit(flag, AccountFlagsAuthImmutableFlag)
                  THEN AppendSlice(n2, AccountFlagsAuthImmutableFlag) ELSE n2
      stringFlags == IF HasBit(flag, AccountFlagsAuthImmutableFlag)
                     THEN AppendSlice(s2, "auth_immutable") ELSE s2
  IN CASE prefix = "set" ->
            [operationDetails EXCEPT !.SetFlags = intFlags, !.SetFlagsString = stringFlags]
       [] prefix = "clear" ->
            [operationDetails EXCEPT !.SetFlags = intFlags, !.SetFlagsString = stringFlags]
       [] OTHER -> operationDetails

addOperationFlagToOperationDetails(operationDetails, flag, prefix) ==
  LET n1 == IF HasBit(flag, AccountFlagsAuthRequiredFlag)
            THEN AppendSlice(EmptySlice, AccountFlagsAuthRequiredFlag) ELSE EmptySlice
      s1 == IF HasBit(flag, AccountFlagsAuthRequiredFlag)
            THEN AppendSlice(EmptySlice, "auth_required") ELSE EmptySlice
      n2 == IF HasBit(flag, AccountFlagsAuthRevocableFlag)
            THEN AppendSlice(n1, AccountFlagsAuthRevocableFlag) ELSE n1
      s2 == IF HasBit(flag, AccountFlagsAuthRevocableFlag)
            THEN AppendSlice(s1, "auth_revocable") ELSE s1
      intFlags == IF HasBit(flag, AccountFlagsAuthImmutableFlag)
                  THEN AppendSlice(n2, AccountFlagsAuthImmutableFlag) ELSE n2
      stringFlags == IF HasBit(flag, AccountFlagsAuthImmutableFlag)
                     THEN AppendSlice(s2, "auth_immutable") ELSE s2
  IN CASE prefix = "set" ->
            [operationDetails EXCEPT !.SetFlags = intFlags, !.SetFlagsString = stringFlags]
       [] prefix = "clear" ->
            [operationDetails EXCEPT !.ClearFlags = intFlags, !.ClearFlagsString = stringFlags]
       [] OTHER -> operationDetails

RECURSIVE PathElems(_)
\* the loop of transformPath: the triplets of the path assets, or failure at
\* the first asset that cannot be extracted
PathElems(initialPath) ==
  IF initialPath = << >> THEN [ok |-> TRUE, elems |-> << >>]
  ELSE LET x == AssetExtract(Head(initialPath))
           rest == PathElems(Tail(initialPath))
       IN IF ~x.ok \/ ~rest.ok THEN [ok |-> FALSE, elems |-> << >>]
          ELSE [ok |-> TRUE,
                elems |-> <<Path(x.assetType, x.issuer, x.code)>> \o rest.elems]

transformPath(initialPath) ==
  IF Len(initialPath) = 0 THEN NilSlice
  ELSE LET p == PathElems(initialPath)
       IN IF ~p.ok THEN NilSlice ELSE [isNil |-> FALSE, elems |-> p.elems]

\* the post-pass without the default for path
ensureSlicesAreNotNilButPath(details) ==
  [details EXCEPT
     !.SetFlags = IF @.isNil THEN EmptySlice ELSE @,
     !.SetFlagsString = IF @.isNil THEN EmptySlice ELSE @,
     !.ClearFlags = IF @.isNil THEN EmptySlice ELSE @,
     !.ClearFlagsString = IF @.isNil THEN EmptySlice ELSE @]

ensureSlicesAreNotNil(details) ==
  [details EXCEPT
     !.Path = IF @.isNil THEN EmptySlice ELSE @,
     !.SetFlags = IF @.isNil THEN EmptySlice ELSE @,
     !.SetFlagsString = IF @.isNil THEN EmptySlice ELSE @,
     !.ClearFlags = IF @.isNil THEN EmptySlice ELSE @,
     !.ClearFlagsString = IF @.isNil THEN EmptySlice ELSE @]

\* --------------------------------------------------- sponsorship lookback
\* the scan run from index 0 upwards: the lowest matching index wins
ScanBeginSponsoringForward(operations, sponsoree, i) ==
  LET hits == {j \in 0 .. i :
                 /\ j < Len(operations)
                 /\ HoldsPayload(operations[j + 1].Body, OperationTypeBeginSponsoringFutureReserves)
                 /\ AddressDecodable(operations[j + 1].Body.op.SponsoredId)
                 /\ AddressDecodable(sponsoree)
                 /\ Address(operations[j + 1].Body.op.SponsoredId) = Address(sponsoree)}
      first == CHOOSE j \in hits : \A k \in hits : j <= k
  IN IF hits = {} THEN [status |-> "none"]
     ELSE [status |-> "found", Operation |-> operations[first + 1], OperationIndex |-> first]

RECURSIVE ScanBeginSponsoring(_, _, _)
\* the loop of findInitatingBeginSponsoringOp from index i down to 0;
\* operations[i] beyond the list and Address() of an account with an unknown
\* key type are run-time panics
ScanBeginSponsoring(operations, sponsoree, i) ==
  IF i < 0 THEN [status |-> "none"]
  ELSE IF i >= Len(operations) THEN [status |-> "panic"]
  ELSE LET candidate == operations[i + 1]
       IN IF HoldsPayload(candidate.Body, OperationTypeBeginSponsoringFutureReserves)
          THEN IF ~AddressDecodable(candidate.Body.op.SponsoredId) \/ ~AddressDecodable(sponsoree)
               THEN [status |-> "panic"]
               ELSE IF Address(candidate.Body.op.SponsoredId) = Address(sponsoree)
                    THEN [status |-> "found", Operation |-> candidate, OperationIndex |-> i]
                    ELSE ScanBeginSponsoring(operations, sponsoree, i - 1)
          ELSE ScanBeginSponsoring(operations, sponsoree, i - 1)

\* the result also tells whether the scan ran (scanned)
findInitatingBeginSponsoringOp(operation, operationIndex, transaction) ==
  IF ~Successful(transaction) THEN [status |-> "none", scanned |-> FALSE]
  ELSE LET sponsoree == ToAccountId(getOperationSourceAccount(operation, transaction))
           found == ScanBeginSponsoring(Operations(transaction), sponsoree, operationIndex - 1)
       IN [scanned |-> TRUE] @@ found

\* ------------------------------------------------------------- ledger keys
LedgerEntryTypeAccount == 0
LedgerEntryTypeTrustline == 1
LedgerEntryTypeOffer == 2
LedgerEntryTypeData == 3
LedgerEntryTypeClaimableBalance == 4
LedgerEntryTypeLiquidityPool == 5

ClaimableBalanceIdTypeClaimableBalanceIdTypeV0 == 0

\* xdr.MarshalHex of a claimable balance id: the hex of its 4-byte type and
\* its hash; an id of another type than V0 cannot be encoded
MarshalHex(balanceId) ==
  IF balanceId.Type = ClaimableBalanceIdTypeClaimableBalanceIdTypeV0
  THEN [ok |-> TRUE, hex |-> HexEncode(<<0, 0, 0, balanceId.Type>> \o balanceId.Hash)]
  ELSE [ok |-> FALSE, hex |-> EmptyString]

addLedgerKeyToDetails(operationDetails, ledgerKey) ==
  CASE ledgerKey.Type = LedgerEntryTypeAccount ->
         [ok |-> TRUE, details |->
            [operationDetails EXCEPT !.AccountID = Address(ledgerKey.AccountId)]]
    [] ledgerKey.Type = LedgerEntryTypeClaimableBalance ->
         LET m == MarshalHex(ledgerKey.BalanceId)
         IN IF ~m.ok THEN [ok |-> FALSE, details |-> operationDetails]
            ELSE [ok |-> TRUE, details |->
                    [operationDetails EXCEPT !.ClaimableBalanceID = m.hex]]
    [] ledgerKey.Type = LedgerEntryTypeData ->
         [ok |-> TRUE, details |->
            [operationDetails EXCEPT !.DataAccountID = Address(ledgerKey.AccountId),
                                     !.DataName = ledgerKey.DataName]]
    [] ledgerKey.Type = LedgerEntryTypeOffer ->
         [ok |-> TRUE, details |-> [operationDetails EXCEPT !.OfferID = ledgerKey.OfferId]]
    [] ledgerKey.Type = LedgerEntryTypeTrustline ->
         [ok |-> TRUE, details |->
            [operationDetails EXCEPT !.TrustlineAccountID = Address(ledgerKey.AccountId),
                                     !.TrustlineAsset = StringCanonical(ledgerKey.Asset)]]
    [] OTHER -> [ok |-> TRUE, details |-> operationDetails]

\* ------------------------------------------- arms of extractOperationDetails
\* Each arm takes the operation body, the Details built so far (Details{}),
\* the resolved source and the context it reads, and gives the outcome of
\* the switch: Returned(details) when the switch falls through to the end.

\* "Could not access Xxx info for this operation (index %d)"
PayloadError(msg) == Error(msg, TRUE, FALSE)

\* the panic of operation.Body.MustXxxOp() when the arm is not set
MustPanic == Panicked("arm is not set")

CaseCreateAccount(body, outputDetails, sourceAccountAddress) ==
  IF ~HoldsPayload(body, OperationTypeCreateAccount)
  THEN Failed(PayloadError("Could not access CreateAccount info"))
  ELSE Returned([outputDetails EXCEPT
         !.Funder = sourceAccountAddress,
         !.Account = Address(body.op.Destination),
         !.StartingBalance = ConvertStroopValueToReal(body.op.StartingBalance)])

CasePayment(body, outputDetails, sourceAccountAddress) ==
  IF ~HoldsPayload(body, OperationTypePayment)
  THEN Failed(PayloadError("Could not access Payment info"))
  ELSE LET to == GetAccountAddressFromMuxedAccount(body.op.Destination)
           d1 == [outputDetails EXCEPT
                    !.From = sourceAccountAddress,
                    !.To = to.address,
                    !.Amount = ConvertStroopValueToReal(body.op.Amount)]
           a == addAssetDetailsToOperationDetails(d1, body.op.Asset, "")
       IN IF ~to.ok THEN Failed(AddressError)
          ELSE IF ~a.ok THEN Failed(ExtractError)
          ELSE Returned(a.details)

\* currentOperationResult.GetTr() and resultBody.GetXxxResult()
GetTr(operationResult) == operationResult.hasTr

\* the kind of the result body is not checked
HoldsResultUnchecked(operationResult, type) == TRUE

HoldsResult(operationResult, type) == operationResult.trType = type

\* the strict-receive arm with source_amount taken from the declared send-max
CasePathPaymentStrictReceiveDeclared(body, outputDetails, sourceAccountAddress, transaction, currentOperationResult) ==
  IF ~HoldsPayload(body, OperationTypePathPaymentStrictReceive)
  THEN Failed(PayloadError("Could not access PathPaymentStrictReceive info"))
  ELSE LET to == GetAccountAddressFromMuxedAccount(body.op.Destination)
           d1 == [outputDetails EXCEPT
                    !.From = sourceAccountAddress,
                    !.To = to.address,
                    !.Amount = ConvertStroopValueToReal(body.op.DestAmount),
                    !.SourceMax = ConvertStroopValueToReal(body.op.SendMax)]
           d2 == addAssetDetailsToOperationDetails(d1, body.op.DestAsset, "").details
           d3 == addAssetDetailsToOperationDetails(d2, body.op.SendAsset, "source").details
           d4 == IF Successful(transaction)
                 THEN [d3 EXCEPT !.SourceAmount =
                         ConvertStroopValueToReal(body.op.SendMax)]
                 ELSE d3
       IN IF ~to.ok THEN Failed(AddressError)
          ELSE IF Successful(transaction) /\ ~GetTr(currentOperationResult)
          THEN Failed(Error("Could not access result body", TRUE, FALSE))
          ELSE IF Successful(transaction)
                  /\ ~HoldsResult(currentOperationResult, OperationTypePathPaymentStrictReceive)
          THEN Failed(Error("Could not access PathPaymentStrictReceive result info", TRUE, FALSE))
          ELSE Returned([d4 EXCEPT !.Path = transformPath(body.op.Path)])

CasePathPaymentStrictReceive(body, outputDetails, sourceAccountAddress, transaction, currentOperationResult) ==
  IF ~HoldsPayload(body, OperationTypePathPaymentStrictReceive)
  THEN Failed(PayloadError("Could not access PathPaymentStrictReceive info"))
  ELSE LET to == GetAccountAddressFromMuxedAccount(body.op.Destination)
           d1 == [outputDetails EXCEPT
                    !.From = sourceAccountAddress,
                    !.To = to.address,
                    !.Amount = ConvertStroopValueToReal(body.op.DestAmount),
                    !.SourceMax = ConvertStroopValueToReal(body.op.SendMax)]
           d2 == addAssetDetailsToOperationDetails(d1, body.op.DestAsset, "").details
           d3 == addAssetDetailsToOperationDetails(d2, body.op.SendAsset, "source").details
           d4 == IF Successful(transaction)
                 THEN [d3 EXCEPT !.SourceAmount =
                         ConvertStroopValueToReal(currentOperationResult.amount)]
                 ELSE d3
       IN IF ~to.ok THEN Failed(AddressError)
          ELSE IF Successful(transaction) /\ ~GetTr(currentOperationResult)
          THEN Failed(Error("Could not access result body", TRUE, FALSE))
          ELSE IF Successful(transaction)
                  /\ ~HoldsResult(currentOperationResult, OperationTypePathPaymentStrictReceive)
          THEN Failed(Error("Could not access PathPaymentStrictReceive result info", TRUE, FALSE))
          ELSE Returned([d4 EXCEPT !.Path = transformPath(body.op.Path)])

\* the strict-send arm with the executed amount written to source_amount
CasePathPaymentStrictSendMirrored(body, outputDetails, sourceAccountAddress, transaction, currentOperationResult) ==
  IF ~HoldsPayload(body, OperationTypePathPaymentStrictSend)
  THEN Failed(PayloadError("Could not access PathPaymentStrictSend info"))
  ELSE LET to == GetAccountAddressFromMuxedAccount(body.op.Destination)
           d1 == [outputDetails EXCEPT
                    !.From = sourceAccountAddress,
                    !.To = to.address,
                    !.SourceAmount = ConvertStroopValueToReal(body.op.SendAmount),
                    !.DestinationMin = AmountString(body.op.DestMin)]
           d2 == addAssetDetailsToOperationDetails(d1, body.op.DestAsset, "").details
           d3 == addAssetDetailsToOperationDetails(d2, body.op.SendAsset, "source").details
           d4 == IF Successful(transaction)
                 THEN [d3 EXCEPT !.SourceAmount =
                         ConvertStroopValueToReal(currentOperationResult.amount)]
                 ELSE d3
       IN IF ~to.ok THEN Failed(AddressError)
          ELSE IF Successful(transaction) /\ ~GetTr(currentOperationResult)
          THEN Failed(Error("Could not access result body", TRUE, FALSE))
          ELSE IF Successful(transaction)
                  /\ ~HoldsResult(currentOperationResult, OperationTypePathPaymentStrictSend)
          THEN Failed(Error("Could not access GetPathPaymentStrictSendResult result info", TRUE, FALSE))
          ELSE Returned([d4 EXCEPT !.Path = transformPath(body.op.Path)])

CasePathPaymentStrictSend(body, outputDetails, sourceAccountAddress, transaction, currentOperationResult) ==
  IF ~HoldsPayload(body, OperationTypePathPaymentStrictSend)
  THEN Failed(PayloadError("Could not access PathPaymentStrictSend info"))
  ELSE LET to == GetAccountAddressFromMuxedAccount(body.op.Destination)
           d1 == [outputDetails EXCEPT
                    !.From = sourceAccountAddress,
                    !.To = to.address,
                    !.SourceAmount = ConvertStroopValueToReal(body.op.SendAmount),
                    !.DestinationMin = AmountString(body.op.DestMin)]
           d2 == addAssetDetailsToOperationDetails(d1, body.op.DestAsset, "").details
           d3 == addAssetDetailsToOperationDetails(d2, body.op.SendAsset, "source").details
           d4 == IF Successful(transaction)
                 THEN [d3 EXCEPT !.Amount =
                         ConvertStroopValueToReal(currentOperationResult.amount)]
                 ELSE d3
       IN IF ~to.ok THEN Failed(AddressError)
          ELSE IF Successful(transaction) /\ ~GetTr(currentOperationResult)
          THEN Failed(Error("Could not access result body", TRUE, FALSE))
          ELSE IF Successful(transaction)
                  /\ ~HoldsResult(currentOperationResult, OperationTypePathPaymentStrictSend)
          THEN Failed(Error("Could not access GetPathPaymentStrictSendResult result info", TRUE, FALSE))
          ELSE Returned([d4 EXCEPT !.Path = transformPath(body.op.Path)])

\* the common tail of the three offer arms
OfferDetails(outputDetails, op) ==
  LET d1 == [outputDetails EXCEPT
               !.Price = ParsedPrice(op.Price),
               !.PriceR = [Numerator |-> op.Price.N, Denominator |-> op.Price.D]]
      d2 == addAssetDetailsToOperationDetails(d1, op.Buying, "buying").details
  IN addAssetDetailsToOperationDetails(d2, op.Selling, "selling").details

CaseManageBuyOffer(body, outputDetails) ==
  IF ~HoldsPayload(body, OperationTypeManageBuyOffer)
  THEN Failed(PayloadError("Could not access ManageBuyOffer info"))
  ELSE Returned(OfferDetails([outputDetails EXCEPT
         !.OfferID = body.op.OfferId,
         !.Amount = ConvertStroopValueToReal(body.op.BuyAmount)], body.op))

CaseManageSellOffer(body, outputDetails) ==
  IF ~HoldsPayload(body, OperationTypeManageSellOffer)
  THEN Failed(PayloadError("Could not access ManageSellOffer info"))
  ELSE Returned(OfferDetails([outputDetails EXCEPT
         !.OfferID = body.op.OfferId,
         !.Amount = ConvertStroopValueToReal(body.op.Amount)], body.op))

CaseCreatePassiveSellOffer(body, outputDetails) ==
  IF ~HoldsPayload(body, OperationTypeCreatePassiveSellOffer)
  THEN Failed(PayloadError("Could not access CreatePassiveSellOffer info"))
  ELSE Returned(OfferDetails([outputDetails EXCEPT
         !.Amount = ConvertStroopValueToReal(body.op.Amount)], body.op))

\* an optional (pointer) field of an operation
Absent == [present |-> FALSE]

Present(v) == [present |-> TRUE, value |-> v]

CaseSetOptions(body, outputDetails) ==
  IF ~HoldsPayload(body, OperationTypeSetOptions)
  THEN Failed(PayloadError("Could not access GetSetOptions info"))
  ELSE LET op == body.op
           d1 == IF op.InflationDest.present
                 THEN [outputDetails EXCEPT !.InflationDest = Address(op.InflationDest.value)]
                 ELSE outputDetails
           d2 == IF op.SetFlags.present /\ op.SetFlags.value > 0
                 THEN addOperationFlagToOperationDetails(d1, op.SetFlags.value, "set")
                 ELSE d1
           d3 == IF op.ClearFlags.present /\ op.ClearFlags.value > 0
                 THEN addOperationFlagToOperationDetails(d2, op.ClearFlags.value, "clear")
                 ELSE d2
           d4 == [d3 EXCEPT
                    !.MasterKeyWeight = IF op.MasterWeight.present THEN op.MasterWeight.value ELSE @,
                    !.LowThreshold = IF op.LowThreshold.present THEN op.LowThreshold.value ELSE @,
                    !.MedThreshold = IF op.MedThreshold.present THEN op.MedThreshold.value ELSE @,
                    !.HighThreshold = IF op.HighThreshold.present THEN op.HighThreshold.value ELSE @,
                    !.HomeDomain = IF op.HomeDomain.present THEN op.HomeDomain.value ELSE @]
       IN Returned(IF op.Signer.present
                   THEN [d4 EXCEPT !.SignerKey = Address(op.Signer.value.Key),
                                   !.SignerWeight = op.Signer.value.Weight]
                   ELSE d4)

CaseChangeTrust(body, outputDetails, sourceAccountAddress) ==
  IF ~HoldsPayload(body, OperationTypeChangeTrust)
  THEN Failed(PayloadError("Could not access GetChangeTrust info"))
  ELSE LET d1 == addAssetDetailsToOperationDetails(outputDetails, body.op.Line, "").details
       IN Returned([d1 EXCEPT
            !.Trustor = sourceAccountAddress,
            !.Trustee = d1.AssetIssuer,
            !.Limit = ConvertStroopValueToReal(body.op.Limit)])

CaseAllowTrust(body, outputDetails, sourceAccount, sourceAccountAddress) ==
  IF ~HoldsPayload(body, OperationTypeAllowTrust)
  THEN Failed(PayloadError("Could not access AllowTrust info"))
  ELSE LET d1 == addAssetDetailsToOperationDetails(outputDetails,
                   ToAsset(body.op.Asset, ToAccountId(sourceAccount)), "").details
       IN Returned([d1 EXCEPT
            !.Trustee = sourceAccountAddress,
            !.Trustor = Address(body.op.Trustor),
            !.Authorize = HasBit(body.op.Authorize, TrustLineFlagsAuthorizedFlag)])

CaseAccountMerge(body, outputDetails, sourceAccountAddress) ==
  IF ~HoldsPayload(body, OperationTypeAccountMerge)
  THEN Failed(PayloadError("Could not access Destination info"))
  ELSE LET into == GetAccountAddressFromMuxedAccount(body.op.Destination)
       IN IF ~into.ok THEN Failed(AddressError)
          ELSE Returned([outputDetails EXCEPT
                 !.Account = sourceAccountAddress, !.Into = into.address])

CaseManageData(body, outputDetails) ==
  IF ~HoldsPayload(body, OperationTypeManageData)
  THEN Failed(PayloadError("Could not access GetManageData info"))
  ELSE Returned([outputDetails EXCEPT
         !.Name = body.op.DataName,
         !.Value = IF body.op.DataValue.present
                   THEN Base64Encode(body.op.DataValue.value) ELSE EmptyString])

CaseBumpSequence(body, outputDetails) ==
  IF ~HoldsPayload(body, OperationTypeBumpSequence)
  THEN Failed(PayloadError("Could not access BumpSequence info"))
  ELSE Returned([outputDetails EXCEPT !.BumpTo = FormatNat(body.op.BumpTo)])

RECURSIVE ClaimantsOf(_)
\* the loop over op.Claimants: c.MustV0() panics for a claimant that is not V0
ClaimantsOf(claimants) ==
  IF claimants = << >> THEN [ok |-> TRUE, slice |-> NilSlice]
  ELSE LET c == claimants[Len(claimants)]
           front == ClaimantsOf(SubSeq(claimants, 1, Len(claimants) - 1))
       IN IF ~front.ok \/ c.Type # 0 THEN [ok |-> FALSE, slice |-> NilSlice]
          ELSE [ok |-> TRUE, slice |-> AppendSlice(front.slice,
                  [Destination |-> Address(c.Destination), Predicate |-> c.Predicate])]

CaseCreateClaimableBalance(body, outputDetails) ==
  IF ~HoldsPayload(body, OperationTypeCreateClaimableBalance) THEN MustPanic
  ELSE LET claimants == ClaimantsOf(body.op.Claimants)
       IN IF ~claimants.ok THEN Panicked("arm V0 is not set")
          ELSE Returned([outputDetails EXCEPT
                 !.AssetCode = StringCanonical(body.op.Asset),
                 !.Amount = ConvertStroopValueToReal(body.op.Amount),
                 !.Claimants = claimants.slice])

CaseClaimClaimableBalance(body, outputDetails, sourceAccountAddress) ==
  IF ~HoldsPayload(body, OperationTypeClaimClaimableBalance) THEN MustPanic
  ELSE LET m == MarshalHex(body.op.BalanceId)
       IN IF ~m.ok THEN Failed(Error("Invalid balanceId in op", TRUE, FALSE))
          ELSE Returned([outputDetails EXCEPT
                 !.BalanceID = m.hex, !.Account = sourceAccountAddress])

CaseBeginSponsoringFutureReserves(body, outputDetails) ==
  IF ~HoldsPayload(body, OperationTypeBeginSponsoringFutureReserves) THEN MustPanic
  ELSE Returned([outputDetails EXCEPT !.SponsoredID = Address(body.op.SponsoredId)])

CaseEndSponsoringFutureReserves(operation, outputDetails, operationIndex, transaction) ==
  LET beginSponsorOp == findInitatingBeginSponsoringOp(operation, operationIndex, transaction)
      steps == IF beginSponsorOp.scanned THEN {"sponsorScan"} ELSE {}
  IN CASE beginSponsorOp.status = "panic" -> WithTrace(Panicked("index out of range"), steps)
       [] beginSponsorOp.status = "none" -> WithTrace(Returned(outputDetails), steps)
       [] beginSponsorOp.status = "found" ->
            LET beginSponsorshipSource ==
                  getOperationSourceAccount(beginSponsorOp.Operation, transaction)
                beginSponsorAddress == GetAccountAddressFromMuxedAccount(beginSponsorshipSource)
            IN IF ~beginSponsorAddress.ok
               THEN WithTrace(Failed(Error("Cannot get Sponsoring Address this operation", TRUE, FALSE)), steps)
               ELSE WithTrace(Returned([outputDetails EXCEPT
                      !.BeginSponsor = beginSponsorAddress.address]), steps)

RevokeSponsorshipTypeRevokeSponsorshipLedgerEntry == 0
RevokeSponsorshipTypeRevokeSponsorshipSigner == 1

CaseRevokeSponsorship(body, outputDetails) ==
  IF ~HoldsPayload(body, OperationTypeRevokeSponsorship) THEN MustPanic
  ELSE CASE body.op.Type = RevokeSponsorshipTypeRevokeSponsorshipLedgerEntry ->
              LET k == addLedgerKeyToDetails(outputDetails, body.op.LedgerKey)
              IN IF ~k.ok THEN Failed(MarshalError) ELSE Returned(k.details)
         [] body.op.Type = RevokeSponsorshipTypeRevokeSponsorshipSigner ->
              Returned([outputDetails EXCEPT
                !.SignerAccountID = Address(body.op.Signer.AccountId),
                !.SignerKey = Address(body.op.Signer.SignerKey)])
         [] OTHER -> Returned(outputDetails)

CaseClawback(body, outputDetails) ==
  IF ~HoldsPayload(body, OperationTypeClawback) THEN MustPanic
  ELSE LET d1 == addAssetDetailsToOperationDetails(outputDetails, body.op.Asset, "").details
           fromAccount == GetAccountAddressFromMuxedAccount(body.op.From)
       IN IF ~fromAccount.ok THEN Failed(AddressError)
          ELSE Returned([d1 EXCEPT
                 !.From = fromAccount.address,
                 !.Amount = ConvertStroopValueToReal(body.op.Amount)])

CaseClawbackClaimableBalance(body, outputDetails) ==
  IF ~HoldsPayload(body, OperationTypeClawbackClaimableBalance) THEN MustPanic
  ELSE LET m == MarshalHex(body.op.BalanceId)
       IN IF ~m.ok THEN Failed(Error("Invalid balanceId in op", TRUE, FALSE))
          ELSE Returned([outputDetails EXCEPT !.BalanceID = m.hex])

CaseSetTrustLineFlags(body, outputDetails) ==
  IF ~HoldsPayload(body, OperationTypeSetTrustLineFlags) THEN MustPanic
  ELSE LET d1 == [outputDetails EXCEPT !.Trustor = Address(body.op.Trustor)]
           d2 == addAssetDetailsToOperationDetails(d1, body.op.Asset, "").details
           d3 == IF body.op.SetFlags > 0
                 THEN addTrustLineFlagToDetails(d2, body.op.SetFlags, "set") ELSE d2
       IN Returned(IF body.op.ClearFlags > 0
                   THEN addTrustLineFlagToDetails(d3, body.op.ClearFlags, "clear") ELSE d3)

\* the switch of extractOperationDetails
Dispatch(operation, transaction, operationIndex, sourceAccount, sourceAccountAddress, currentOperationResult) ==
  LET body == operation.Body
      operationType == body.Type
      outputDetails == ZeroDetails
  IN CASE operationType = OperationTypeCreateAccount ->
            CaseCreateAccount(body, outputDetails, sourceAccountAddress)
       [] operationType = OperationTypePayment ->
            CasePayment(body, outputDetails, sourceAccountAddress)
       [] operationType = OperationTypePathPaymentStrictReceive ->
            CasePathPaymentStrictReceive(body, outputDetails, sourceAccountAddress,
                                         transaction, currentOperationResult)
       [] operationType = OperationTypePathPaymentStrictSend ->
            CasePathPaymentStrictSend(body, outputDetails, sourceAccountAddress,
                                      transaction, currentOperationResult)
       [] operationType = OperationTypeManageBuyOffer -> CaseManageBuyOffer(body, outputDetails)
       [] operationType = OperationTypeManageSellOffer -> CaseManageSellOffer(body, outputDetails)
       [] operationType = OperationTypeCreatePassiveSellOffer ->
            CaseCreatePassiveSellOffer(body, outputDetails)
       [] operationType = OperationTypeSetOptions -> CaseSetOptions(body, outputDetails)
       [] operationType = OperationTypeChangeTrust ->
            CaseChangeTrust(body, outputDetails, sourceAccountAddress)
       [] operationType = OperationTypeAllowTrust ->
            CaseAllowTrust(body, outputDetails, sourceAccount, sourceAccountAddress)
       [] operationType = OperationTypeAccountMerge ->
            CaseAccountMerge(body, outputDetails, sourceAccountAddress)
       [] operationType = OperationTypeInflation -> Returned(outputDetails)
       [] operationType = OperationTypeManageData -> CaseManageData(body, outputDetails)
       [] operationType = OperationTypeBumpSequence -> CaseBumpSequence(body, outputDetails)
       [] operationType = OperationTypeCreateClaimableBalance ->
            CaseCreateClaimableBalance(body, outputDetails)
       [] operationType = OperationTypeClaimClaimableBalance ->
            CaseClaimClaimableBalance(body, outputDetails, sourceAccountAddress)
       [] operationType = OperationTypeBeginSponsoringFutureReserves ->
            CaseBeginSponsoringFutureReserves(body, outputDetails)
       [] operationType = OperationTypeEndSponsoringFutureReserves ->
            CaseEndSponsoringFutureReserves(operation, outputDetails, operationIndex, transaction)
       [] operationType = OperationTypeRevokeSponsorship ->
            CaseRevokeSponsorship(body, outputDetails)
       [] operationType = OperationTypeClawback -> CaseClawback(body, outputDetails)
       [] operationType = OperationTypeClawbackClaimableBalance ->
            CaseClawbackClaimableBalance(body, outputDetails)
       [] operationType = OperationTypeSetTrustLineFlags ->
            CaseSetTrustLineFlags(body, outputDetails)
       [] OTHER -> Failed(Error("Unknown operation type", FALSE, FALSE))

extractOperationDetails(operation, transaction, operationIndex) ==
  LET sourceAccount == getOperationSourceAccount(operation, transaction)
      sourceAccountAddress == GetAccountAddressFromMuxedAccount(sourceAccount)
      allOperationResults == OperationResults(transaction)
  IN IF ~sourceAccountAddress.ok THEN Failed(AddressError)
     ELSE IF ~allOperationResults.ok
     THEN WithTrace(Failed(Error("Could not access any results for this transaction", FALSE, FALSE)),
                    {"OperationResults"})
     ELSE IF operationIndex >= Len(allOperationResults.results)
     THEN WithTrace(Panicked("index out of range"), {"OperationResults"})
     ELSE LET currentOperationResult == allOperationResults.results[operationIndex + 1]
              switched == Dispatch(operation, transaction, operationIndex, sourceAccount,
                                   sourceAccountAddress.address, currentOperationResult)
          IN WithTrace(IF switched.status = "ok"
                       THEN Returned(ensureSlicesAreNotNil(switched.details))
                       ELSE switched,
                       switched.trace \cup {"OperationResults", "currentOperationResult"})

\* ------------------------------------------------------ TransformOperation
\* toid.New(ledger, transaction, operation).ToInt64(): one 64-bit id that
\* packs the three numbers, the ledger sequence in the highest bits and the
\* operation order in the lowest; the id is kept as the triple of its fields
ToidNew(ledgerSeq, transactionIndex, operationOrder) ==
  <<ledgerSeq, transactionIndex, operationOrder>>

ZeroId == <<0, 0, 0>>

ZeroOperationOutput ==
  [SourceAccount |-> EmptyString, Type |-> 0, ApplicationOrder |-> 0,
   TransactionID |-> ZeroId, OperationID |-> ZeroId, OperationDetails |-> ZeroDetails]

\* TransformOperation numbering the operation's id slot from 0
TransformOperationZeroBasedId(operation, operationIndex, transaction, ledgerSeq) ==
  LET outputTransactionID == ToidNew(ledgerSeq, transaction.Index, 0)
      outputOperationID == ToidNew(ledgerSeq, transaction.Index, operationIndex)
      outputSourceAccount ==
        GetAccountAddressFromMuxedAccount(getOperationSourceAccount(operation, transaction))
      outputOperationType == operation.Body.Type
      outputDetails == extractOperationDetails(operation, transaction, operationIndex)
      none == [status |-> "error", output |-> ZeroOperationOutput, err |-> NoError, trace |-> {}]
  IN IF ~outputSourceAccount.ok
     THEN [none EXCEPT !.err = Error("for operation (ledger id)", TRUE, TRUE)]
     ELSE IF outputOperationType < 0
     THEN [none EXCEPT !.err = Error("The operation type is negative", TRUE, TRUE)]
     ELSE IF outputDetails.status # "ok"
     THEN [status |-> outputDetails.status, output |-> ZeroOperationOutput,
           err |-> outputDetails.err, trace |-> outputDetails.trace]
     ELSE [status |-> "ok",
           output |-> [SourceAccount |-> outputSourceAccount.address,
                       Type |-> outputOperationType,
                       ApplicationOrder |-> operationIndex + 1,
                       TransactionID |-> outputTransactionID,
                       OperationID |-> outputOperationID,
                       OperationDetails |-> outputDetails.details],
           err |-> NoError, trace |-> outputDetails.trace]

\* TransformOperation rejecting a negative type tag only after the details
\* were extracted
TransformOperationLateTypeCheck(operation, operationIndex, transaction, ledgerSeq) ==
  LET outputTransactionID == ToidNew(ledgerSeq, transaction.Index, 0)
      outputOperationID == ToidNew(ledgerSeq, transaction.Index, operationIndex + 1)
      outputSourceAccount ==
        GetAccountAddressFromMuxedAccount(getOperationSourceAccount(operation, transaction))
      outputOperationType == operation.Body.Type
      outputDetails == extractOperationDetails(operation, transaction, operationIndex)
      none == [status |-> "error", output |-> ZeroOperationOutput, err |-> NoError, trace |-> {}]
  IN IF ~outputSourceAccount.ok
     THEN [none EXCEPT !.err = Error("for operation (ledger id)", TRUE, TRUE)]
     ELSE IF outputDetails.status # "ok"
     THEN [status |-> outputDetails.status, output |-> ZeroOperationOutput,
           err |-> outputDetails.err, trace |-> outputDetails.trace]
     ELSE IF outputOperationType < 0
     THEN [none EXCEPT !.err = Error("The operation type is negative", TRUE, TRUE)]
     ELSE [status |-> "ok",
           output |-> [SourceAccount |-> outputSourceAccount.address,
                       Type |-> outputOperationType,
                       ApplicationOrder |-> operationIndex + 1,
                       TransactionID |-> outputTransactionID,
                       OperationID |-> outputOperationID,
                       OperationDetails |-> outputDetails.details],
           err |-> NoError, trace |-> outputDetails.trace]

TransformOperation(operation, operationIndex, transaction, ledgerSeq) ==
  LET outputTransactionID == ToidNew(ledgerSeq, transaction.Index, 0)
      outputOperationID == ToidNew(ledgerSeq, transaction.Index, operationIndex + 1)
      outputSourceAccount ==
        GetAccountAddressFromMuxedAccount(getOperationSourceAccount(operation, transaction))
      outputOperationType == operation.Body.Type
      outputDetails == extractOperationDetails(operation, transaction, operationIndex)
      none == [status |-> "error", output |-> ZeroOperationOutput, err |-> NoError, trace |-> {}]
  IN IF ~outputSourceAccount.ok
     THEN [none EXCEPT !.err = Error("for operation (ledger id)", TRUE, TRUE)]
     ELSE IF outputOperationType < 0
     THEN [none EXCEPT !.err = Error("The operation type is negative", TRUE, TRUE)]
     ELSE IF outputDetails.status # "ok"
     THEN [status |-> outputDetails.status, output |-> ZeroOperationOutput,
           err |-> outputDetails.err, trace |-> outputDetails.trace]
     ELSE [status |-> "ok",
           output |-> [SourceAccount |-> outputSourceAccount.address,
                       Type |-> outputOperationType,
                       ApplicationOrder |-> operationIndex + 1,
                       TransactionID |-> outputTransactionID,
                       OperationID |-> outputOperationID,
                       OperationDetails |-> outputDetails.details],
           err |-> NoError, trace |-> outputDetails.trace]

\* ------------------------------------------------------- contract storage
\* A 32-byte hash is modelled by what it was computed from, so that two
\* hashes are equal exactly when their inputs are: the network passphrase and
\* the asset of a Stellar Asset Contract id, or a tag for any other value.
Hash(network, preimage) == [network |-> network, preimage |-> preimage]

\* [32]byte{}
ZeroHash == Hash("", NativeAsset)

\* xdr.Asset.ContractID(passphrase)
ContractID(asset, passphrase) == Hash(passphrase, asset)

\* a *xdr.Hash
NilHash == [isNil |-> TRUE, value |-> ZeroHash]

HashPtr(hash) == [isNil |-> FALSE, value |-> hash]

\* an ScAddress: of a contract or of an account
ScAddress(type, contractId) == [Type |-> type, ContractId |-> contractId]

\* xdr.ScVal: the type tag and the arm values; the arms of the other types
\* are zero
ScValOf(type) ==
  [Type |-> type, Sym |-> "", Str |-> EmptyString, Bytes |-> 0, B |-> FALSE,
   Vec |-> NilSlice, Map |-> NilSlice, Storage |-> NilSlice,
   I128 |-> [Hi |-> 0, Lo |-> 0], Address |-> ScAddress("", ZeroHash)]

ScSymbol(sym) == [ScValOf("ScvSymbol") EXCEPT !.Sym = sym]

ScString(str) == [ScValOf("ScvString") EXCEPT !.Str = str]

\* the bytes of an account key: 1 .. NumAccounts are 32-byte keys, 0 is a
\* byte string of another length, -1 one longer than strkey can encode
ScBytes(bytes) == [ScValOf("ScvBytes") EXCEPT !.Bytes = bytes]

ScBool(b) == [ScValOf("ScvBool") EXCEPT !.B = b]

ScVec(elems) == [ScValOf("ScvVec") EXCEPT !.Vec = [isNil |-> FALSE, elems |-> elems]]

ScMap(entries) == [ScValOf("ScvMap") EXCEPT !.Map = [isNil |-> FALSE, elems |-> entries]]

ScI128(hi, lo) == [ScValOf("ScvI128") EXCEPT !.I128 = [Hi |-> hi, Lo |-> lo]]

ScAddressVal(address) == [ScValOf("ScvAddress") EXCEPT !.Address = address]

\* a contract instance with its storage, a slice of map entries that may be
\* nil
ScContractInstance(storage) == [ScValOf("ScvContractInstance") EXCEPT !.Storage = storage]

ScMapEntry(key, val) == [Key |-> key, Val |-> val]

assetInfoKey == ScVec(<<ScSymbol("AssetInfo")>>)

\* the characters of an asset code
CodeCharacters == {"C", "D", "G", "L", "N", "O", "S", "U", "X", "0", "1"}

\* strkey.Encode(strkey.VersionByteAccountID, bytes): any payload that is not
\* too long is encoded, to an account address when it is a 32-byte key
StrkeyEncode(bytes) ==
  IF bytes < 0 THEN [ok |-> FALSE, address |-> EmptyString]
  ELSE IF bytes \in 1 .. Len(AddressTable)
  THEN [ok |-> TRUE, address |-> AddressTable[bytes]]
  ELSE [ok |-> TRUE, address |-> <<"G">>]

\* xdr.NewCreditAsset(code, issuer): the code has 1 to 12 characters of the
\* code alphabet, its length chooses the asset type, and the issuer is the
\* address of an account
NewCreditAsset(code, issuer) ==
  LET validCode == /\ Len(code) \in 1 .. 12
                   /\ \A i \in 1 .. Len(code) : code[i] \in CodeCharacters
      keys == {k \in 1 .. Len(AddressTable) : AddressTable[k] = issuer}
  IN IF ~validCode \/ keys = {} THEN [ok |-> FALSE, asset |-> NativeAsset]
     ELSE [ok |-> TRUE,
           asset |-> CreditAsset(IF Len(code) <= 4 THEN AssetTypeAssetTypeCreditAlphanum4
                                 ELSE AssetTypeAssetTypeCreditAlphanum12,
                                 code, CHOOSE k \in keys : TRUE)]

\* a *xdr.Asset
NilAsset == [isNil |-> TRUE, asset |-> NativeAsset]

AssetPtr(asset) == [isNil |-> FALSE, asset |-> asset]

RECURSIVE FirstAssetInfo(_)
\* the loop over the instance storage: the value of the first entry whose
\* key is the asset info key, or nil
FirstAssetInfo(storage) ==
  IF storage = << >> THEN [isNil |-> TRUE, value |-> ScValOf("ScvVoid")]
  ELSE IF Head(storage).Key = assetInfoKey
  THEN [isNil |-> FALSE, value |-> Head(storage).Val]
  ELSE FirstAssetInfo(Tail(storage))

\* the asset of a well-shaped asset info value, or nil: the checks of
\* AssetFromContractData between the storage lookup and the comparison of
\* the contract ids
AssetOfAssetInfo(assetInfo) ==
  LET vec == assetInfo.Vec.elems
      assetMap == vec[2].Map.elems
      assetCodeEntry == assetMap[1]
      assetIssuerEntry == assetMap[2]
      assetCode == assetCodeEntry.Val.Str
      assetIssuer == StrkeyEncode(assetIssuerEntry.Val.Bytes)
      asset == NewCreditAsset(assetCode, assetIssuer.address)
  IN IF assetInfo.Type # "ScvVec" \/ assetInfo.Vec.isNil \/ Len(vec) # 2 THEN NilAsset
     ELSE IF vec[1].Type # "ScvSymbol" THEN NilAsset
     ELSE IF vec[1].Sym \notin {"AlphaNum4", "AlphaNum12"} THEN NilAsset
     ELSE IF vec[2].Type # "ScvMap" \/ vec[2].Map.isNil \/ Len(assetMap) # 2 THEN NilAsset
     ELSE IF assetCodeEntry.Key.Type # "ScvSymbol" \/ assetCodeEntry.Key.Sym # "asset_code"
     THEN NilAsset
     ELSE IF assetCodeEntry.Val.Type # "ScvString" THEN NilAsset
     ELSE IF assetCode = EmptyString THEN NilAsset
     ELSE IF assetIssuerEntry.Key.Type # "ScvSymbol" \/ assetIssuerEntry.Key.Sym # "issuer"
     THEN NilAsset
     ELSE IF assetIssuerEntry.Val.Type # "ScvBytes" THEN NilAsset
     ELSE IF ~assetIssuer.ok THEN NilAsset
     ELSE IF ~asset.ok THEN NilAsset
     ELSE AssetPtr(asset.asset)

\* AssetFromContractData returning the asset of the asset info without
\* comparing the contract ids
AssetFromContractDataUnverified(ledgerEntry, passphrase) ==
  LET contractData == ledgerEntry.Data.ContractData
      contractInstanceData == contractData.Val
      nativeAssetContractID == ContractID(NativeAsset, passphrase)
      assetInfo == FirstAssetInfo(contractInstanceData.Storage.elems)
      asset == AssetOfAssetInfo(assetInfo.value)
  IN IF ledgerEntry.Data.Type # "ContractData" THEN NilAsset
     ELSE IF contractData.Key.Type # "ScvLedgerKeyContractInstance" THEN NilAsset
     ELSE IF contractInstanceData.Type # "ScvContractInstance"
             \/ contractInstanceData.Storage.isNil
     THEN NilAsset
     ELSE IF ~contractData.Contract.ContractId.isNil
             /\ contractData.Contract.ContractId.value = nativeAssetContractID
     THEN AssetPtr(NativeAsset)
     ELSE IF assetInfo.isNil THEN NilAsset
     ELSE asset

AssetFromContractData(ledgerEntry, passphrase) ==
  LET contractData == ledgerEntry.Data.ContractData
      contractInstanceData == contractData.Val
      nativeAssetContractID == ContractID(NativeAsset, passphrase)
      assetInfo == FirstAssetInfo(contractInstanceData.Storage.elems)
      asset == AssetOfAssetInfo(assetInfo.value)
  IN IF ledgerEntry.Data.Type # "ContractData" THEN NilAsset
     ELSE IF contractData.Key.Type # "ScvLedgerKeyContractInstance" THEN NilAsset
     ELSE IF contractInstanceData.Type # "ScvContractInstance"
             \/ contractInstanceData.Storage.isNil
     THEN NilAsset
     ELSE IF ~contractData.Contract.ContractId.isNil
             /\ contractData.Contract.ContractId.value = nativeAssetContractID
     THEN AssetPtr(NativeAsset)
     ELSE IF assetInfo.isNil THEN NilAsset
     ELSE IF asset.isNil THEN NilAsset
     ELSE IF contractData.Contract.ContractId.isNil
             \/ ContractID(asset.asset, passphrase) # contractData.Contract.ContractId.value
     THEN NilAsset
     ELSE asset

\* ContractBalanceFromContractData.  The amount Hi * 2^64 + Lo is kept as
\* its two 64-bit words, Hi signed and Lo unsigned: this is the big integer
\* in base 2^64.
NoBalance == [holder |-> ZeroHash, amt |-> [isNil |-> TRUE, Hi |-> 0, Lo |-> 0], ok |-> FALSE]

\* ContractBalanceFromContractData without the check of the sign of Hi
ContractBalanceFromContractDataUnsigned(ledgerEntry, passphrase) ==
  LET contractData == ledgerEntry.Data.ContractData
      keyEnumVec == contractData.Key.Vec.elems
      scAddress == keyEnumVec[2].Address
      holder == scAddress.ContractId
      balanceMap == contractData.Val.Map.elems
      IsEntry(entry, keySym) == entry.Key.Type = "ScvSymbol" /\ entry.Key.Sym = keySym
      amount == balanceMap[1].Val.I128
  IN IF ledgerEntry.Data.Type # "ContractData" THEN NoBalance
     ELSE IF contractData.Contract.ContractId.isNil THEN NoBalance
     ELSE IF contractData.Key.Type # "ScvVec" \/ contractData.Key.Vec.isNil THEN NoBalance
     ELSE IF Len(keyEnumVec) # 2 \/ keyEnumVec[1] # ScSymbol("Balance") THEN NoBalance
     ELSE IF keyEnumVec[2].Type # "ScvAddress" THEN NoBalance
     ELSE IF scAddress.Type # "Contract" THEN NoBalance
     ELSE IF contractData.Val.Type # "ScvMap" \/ contractData.Val.Map.isNil THEN NoBalance
     ELSE IF Len(balanceMap) # 3 THEN NoBalance
     ELSE IF ~IsEntry(balanceMap[1], "amount") THEN NoBalance
     ELSE IF ~IsEntry(balanceMap[2], "authorized") \/ balanceMap[2].Val.Type # "ScvBool"
     THEN NoBalance
     ELSE IF ~IsEntry(balanceMap[3], "clawback") \/ balanceMap[3].Val.Type # "ScvBool"
     THEN NoBalance
     ELSE IF balanceMap[1].Val.Type # "ScvI128" THEN NoBalance
     ELSE [holder |-> holder, amt |-> [isNil |-> FALSE, Hi |-> amount.Hi, Lo |-> amount.Lo],
           ok |-> TRUE]

ContractBalanceFromContractData(ledgerEntry, passphrase) ==
  LET contractData == ledgerEntry.Data.ContractData
      keyEnumVec == contractData.Key.Vec.elems
      scAddress == keyEnumVec[2].Address
      holder == scAddress.ContractId
      balanceMap == contractData.Val.Map.elems
      IsEntry(entry, keySym) == entry.Key.Type = "ScvSymbol" /\ entry.Key.Sym = keySym
      amount == balanceMap[1].Val.I128
  IN IF ledgerEntry.Data.Type # "ContractData" THEN NoBalance
     ELSE IF contractData.Contract.ContractId.isNil THEN NoBalance
     ELSE IF contractData.Key.Type # "ScvVec" \/ contractData.Key.Vec.isNil THEN NoBalance
     ELSE IF Len(keyEnumVec) # 2 \/ keyEnumVec[1] # ScSymbol("Balance") THEN NoBalance
     ELSE IF keyEnumVec[2].Type # "ScvAddress" THEN NoBalance
     ELSE IF scAddress.Type # "Contract" THEN NoBalance
     ELSE IF contractData.Val.Type # "ScvMap" \/ contractData.Val.Map.isNil THEN NoBalance
     ELSE IF Len(balanceMap) # 3 THEN NoBalance
     ELSE IF ~IsEntry(balanceMap[1], "amount") THEN NoBalance
     ELSE IF ~IsEntry(balanceMap[2], "authorized") \/ balanceMap[2].Val.Type # "ScvBool"
     THEN NoBalance
     ELSE IF ~IsEntry(balanceMap[3], "clawback") \/ balanceMap[3].Val.Type # "ScvBool"
     THEN NoBalance
     ELSE IF balanceMap[1].Val.Type # "ScvI128" THEN NoBalance
     ELSE IF amount.Hi < 0 THEN NoBalance
     ELSE [holder |-> holder, amt |-> [isNil |-> FALSE, Hi |-> amount.Hi, Lo |-> amount.Lo],
           ok |-> TRUE]

\* ----------------------------------------------------- config settings
\* strconv.Itoa
Itoa(n) == IF n < 0 THEN <<"-">> \o FormatNat(-n) ELSE FormatNat(n)

\* utils.ExtractEntryFromChange: the entry after the change, or before it
\* when the entry was removed, with the kind of change; an error when the
\* change holds neither
ExtractEntryFromChange(ledgerChange) ==
  IF ~ledgerChange.Post.isNil
  THEN [ok |-> TRUE, ledgerEntry |-> ledgerChange.Post.entry,
        changeType |-> IF ledgerChange.Pre.isNil THEN 0 ELSE 1, outputDeleted |-> FALSE]
  ELSE IF ~ledgerChange.Pre.isNil
  THEN [ok |-> TRUE, ledgerEntry |-> ledgerChange.Pre.entry,
        changeType |-> 2, outputDeleted |-> TRUE]
  ELSE [ok |-> FALSE, ledgerEntry |-> ledgerChange.Pre.entry,
        changeType |-> 0, outputDeleted |-> FALSE]

\* the arms of the ConfigSettingEntry union, in the order of their ids
ConfigSettingArms ==
  <<"ContractMaxSizeBytes", "ContractCompute", "ContractLedgerCost", "ContractHistoricalData",
    "ContractEvents", "ContractBandwidth", "ContractCostParamsCpuInsns",
    "ContractCostParamsMemBytes", "ContractDataKeySizeBytes", "ContractDataEntrySizeBytes",
    "StateExpirationSettings", "ContractExecutionLanes", "BucketListSizeWindow",
    "EvictionIterator">>

\* the zero value of an arm of the union
ZeroArm(arm) ==
  CASE arm = "ContractCompute" ->
         [LedgerMaxInstructions |-> 0, TxMaxInstructions |-> 0,
          FeeRatePerInstructionsIncrement |-> 0, TxMemoryLimit |-> 0]
    [] arm = "ContractLedgerCost" ->
         [LedgerMaxReadLedgerEntries |-> 0, LedgerMaxReadBytes |-> 0,
          LedgerMaxWriteLedgerEntries |-> 0, LedgerMaxWriteBytes |-> 0,
          TxMaxReadLedgerEntries |-> 0, TxMaxReadBytes |-> 0, TxMaxWriteLedgerEntries |-> 0,
          TxMaxWriteBytes |-> 0, FeeReadLedgerEntry |-> 0, FeeWriteLedgerEntry |-> 0,
          FeeRead1Kb |-> 0, BucketListTargetSizeBytes |-> 0, WriteFee1KbBucketListLow |-> 0,
          WriteFee1KbBucketListHigh |-> 0, BucketListWriteFeeGrowthFactor |-> 0]
    [] arm = "ContractHistoricalData" -> [FeeHistorical1Kb |-> 0]
    [] arm = "ContractEvents" -> [TxMaxContractEventsSizeBytes |-> 0, FeeContractEvents1Kb |-> 0]
    [] arm = "ContractBandwidth" ->
         [LedgerMaxTxsSizeBytes |-> 0, TxMaxSizeBytes |-> 0, FeeTxSize1Kb |-> 0]
    [] arm = "StateExpirationSettings" ->
         [MaxEntryExpiration |-> 0, MinTempEntryExpiration |-> 0,
          MinPersistentEntryExpiration |-> 0, PersistentRentRateDenominator |-> 0,
          TempRentRateDenominator |-> 0, MaxEntriesToExpire |-> 0,
          BucketListSizeWindowSampleSize |-> 0, EvictionScanSize |-> 0,
          StartingEvictionScanLevel |-> 0]
    [] arm = "ContractExecutionLanes" -> [LedgerMaxTxCount |-> 0]
    [] arm \in {"ContractCostParamsCpuInsns", "ContractCostParamsMemBytes",
                "BucketListSizeWindow"} -> << >>
    [] OTHER -> 0

\* configSetting.GetXxx(): the value of the arm when the setting holds that
\* arm, the zero value otherwise
GetArm(configSetting, arm) ==
  IF ConfigSettingArms[configSetting.ConfigSettingId + 1] = arm
  THEN configSetting.v ELSE ZeroArm(arm)

\* serializeParams: one map of decimal strings for each cost parameter
serializeParams(costParams) ==
  [isNil |-> FALSE,
   elems |-> [i \in 1 .. Len(costParams) |->
                [ExtV |-> Itoa(costParams[i].ExtV),
                 ConstTerm |-> Itoa(costParams[i].ConstTerm),
                 LinearTerm |-> Itoa(costParams[i].LinearTerm)]]]

\* ConfigSettingOutput{}
ZeroConfigSettingOutput ==
  [ConfigSettingId |-> 0, ContractMaxSizeBytes |-> 0, LedgerMaxInstructions |-> 0,
   TxMaxInstructions |-> 0, FeeRatePerInstructionsIncrement |-> 0, TxMemoryLimit |-> 0,
   LedgerMaxReadLedgerEntries |-> 0, LedgerMaxReadBytes |-> 0,
   LedgerMaxWriteLedgerEntries |-> 0, LedgerMaxWriteBytes |-> 0,
   TxMaxReadLedgerEntries |-> 0, TxMaxReadBytes |-> 0, TxMaxWriteLedgerEntries |-> 0,
   TxMaxWriteBytes |-> 0, FeeReadLedgerEntry |-> 0, FeeWriteLedgerEntry |-> 0,
   FeeRead1Kb |-> 0, BucketListTargetSizeBytes |-> 0, WriteFee1KbBucketListLow |-> 0,
   WriteFee1KbBucketListHigh |-> 0, BucketListWriteFeeGrowthFactor |-> 0,
   FeeHistorical1Kb |-> 0, TxMaxContractEventsSizeBytes |-> 0, FeeContractEvents1Kb |-> 0,
   LedgerMaxTxsSizeBytes |-> 0, TxMaxSizeBytes |-> 0, FeeTxSize1Kb |-> 0,
   ContractCostParamsCpuInsns |-> NilSlice, ContractCostParamsMemBytes |-> NilSlice,
   ContractDataKeySizeBytes |-> 0, ContractDataEntrySizeBytes |-> 0,
   MaxEntryExpiration |-> 0, MinTempEntryExpiration |-> 0, MinPersistentEntryExpiration |-> 0,
   PersistentRentRateDenominator |-> 0, TempRentRateDenominator |-> 0,
   MaxEntriesToExpire |-> 0, BucketListSizeWindowSampleSize |-> 0, EvictionScanSize |-> 0,
   StartingEvictionScanLevel |-> 0, LedgerMaxTxCount |-> 0, BucketListSizeWindow |-> NilSlice,
   LastModifiedLedger |-> 0, LedgerEntryChange |-> 0, Deleted |-> FALSE]

\* the field copies of TransformConfigSetting, once the entry is known to
\* hold a config setting
ConfigSettingFields(configSetting, ledgerEntry, changeType, outputDeleted) ==
  LET contractCompute == GetArm(configSetting, "ContractCompute")
      contractLedgerCost == GetArm(configSetting, "ContractLedgerCost")
      contractHistoricalData ==
        GetArm(configSetting, "ContractHistoricalData")
      contractMetaData == GetArm(configSetting, "ContractEvents")
      contractBandwidth == GetArm(configSetting, "ContractBandwidth")
      stateExpirationSettings ==
        GetArm(configSetting, "StateExpirationSettings")
      contractExecutionLanes ==
        GetArm(configSetting, "ContractExecutionLanes")
  IN [ConfigSettingId |-> configSetting.ConfigSettingId,
      ContractMaxSizeBytes |-> GetArm(configSetting, "ContractMaxSizeBytes"),
      LedgerMaxInstructions |-> contractCompute.LedgerMaxInstructions,
      TxMaxInstructions |-> contractCompute.TxMaxInstructions,
      FeeRatePerInstructionsIncrement |-> contractCompute.FeeRatePerInstructionsIncrement,
      TxMemoryLimit |-> contractCompute.TxMemoryLimit,
      LedgerMaxReadLedgerEntries |-> contractLedgerCost.LedgerMaxReadLedgerEntries,
      LedgerMaxReadBytes |-> contractLedgerCost.LedgerMaxReadBytes,
      LedgerMaxWriteLedgerEntries |-> contractLedgerCost.LedgerMaxWriteLedgerEntries,
      LedgerMaxWriteBytes |-> contractLedgerCost.LedgerMaxWriteBytes,
      TxMaxReadLedgerEntries |-> contractLedgerCost.TxMaxReadLedgerEntries,
      TxMaxReadBytes |-> contractLedgerCost.TxMaxReadBytes,
      TxMaxWriteLedgerEntries |-> contractLedgerCost.TxMaxWriteLedgerEntries,
      TxMaxWriteBytes |-> contractLedgerCost.TxMaxWriteBytes,
      FeeReadLedgerEntry |-> contractLedgerCost.FeeReadLedgerEntry,
      FeeWriteLedgerEntry |-> contractLedgerCost.FeeWriteLedgerEntry,
      FeeRead1Kb |-> contractLedgerCost.FeeRead1Kb,
      BucketListTargetSizeBytes |-> contractLedgerCost.BucketListTargetSizeBytes,
      WriteFee1KbBucketListLow |-> contractLedgerCost.WriteFee1KbBucketListLow,
      WriteFee1KbBucketListHigh |-> contractLedgerCost.WriteFee1KbBucketListHigh,
      BucketListWriteFeeGrowthFactor |-> contractLedgerCost.BucketListWriteFeeGrowthFactor,
      FeeHistorical1Kb |-> contractHistoricalData.FeeHistorical1Kb,
      TxMaxContractEventsSizeBytes |-> contractMetaData.TxMaxContractEventsSizeBytes,
      FeeContractEvents1Kb |-> contractMetaData.FeeContractEvents1Kb,
      LedgerMaxTxsSizeBytes |-> contractBandwidth.LedgerMaxTxsSizeBytes,
      TxMaxSizeBytes |-> contractBandwidth.TxMaxSizeBytes,
      FeeTxSize1Kb |-> contractBandwidth.FeeTxSize1Kb,
      ContractCostParamsCpuInsns |->
        serializeParams(GetArm(configSetting, "ContractCostParamsCpuInsns")),
      ContractCostParamsMemBytes |->
        serializeParams(GetArm(configSetting, "ContractCostParamsMemBytes")),
      ContractDataKeySizeBytes |-> GetArm(configSetting, "ContractDataKeySizeBytes"),
      ContractDataEntrySizeBytes |-> GetArm(configSetting, "ContractDataEntrySizeBytes"),
      MaxEntryExpiration |-> stateExpirationSettings.MaxEntryExpiration,
      MinTempEntryExpiration |-> stateExpirationSettings.MinTempEntryExpiration,
      MinPersistentEntryExpiration |-> stateExpirationSettings.MinPersistentEntryExpiration,
      PersistentRentRateDenominator |-> stateExpirationSettings.PersistentRentRateDenominator,
      TempRentRateDenominator |-> stateExpirationSettings.TempRentRateDenominator,
      MaxEntriesToExpire |-> stateExpirationSettings.MaxEntriesToExpire,
      BucketListSizeWindowSampleSize |-> stateExpirationSettings.BucketListSizeWindowSampleSize,
      EvictionScanSize |-> stateExpirationSettings.EvictionScanSize,
      StartingEvictionScanLevel |-> stateExpirationSettings.StartingEvictionScanLevel,
      LedgerMaxTxCount |-> contractExecutionLanes.LedgerMaxTxCount,
      BucketListSizeWindow |->
        [isNil |-> FALSE, elems |-> GetArm(configSetting, "BucketListSizeWindow")],
      LastModifiedLedger |-> ledgerEntry.LastModifiedLedgerSeq,
      LedgerEntryChange |-> changeType,
      Deleted |-> outputDeleted]

\* TransformConfigSetting: GetConfigSetting succeeds exactly when the entry's
\* data is of the config setting type, so the test of the type that follows
\* it never finds another type
TransformConfigSetting(ledgerChange) ==
  LET extracted == ExtractEntryFromChange(ledgerChange)
      ledgerEntry == extracted.ledgerEntry
      ok == ledgerEntry.Data.Type = "ConfigSetting"
  IN IF ~extracted.ok
     THEN [status |-> "error", output |-> ZeroConfigSettingOutput,
           err |-> Error("unable to extract ledger entry type from change", FALSE, FALSE)]
     ELSE IF ~ok
     THEN [status |-> "error", output |-> ZeroConfigSettingOutput,
           err |-> Error("Could not extract config setting from ledger entry; actual type is",
                         FALSE, FALSE)]
     ELSE IF ledgerEntry.Data.Type # "ConfigSetting"
     THEN [status |-> "ok", output |-> ZeroConfigSettingOutput, err |-> NoError]
     ELSE [status |-> "ok",
           output |-> ConfigSettingFields(ledgerEntry.Data.ConfigSetting, ledgerEntry,
                                          extracted.changeType, extracted.outputDeleted),
           err |-> NoError]

\* ------------------------------------------------------------------ inputs
\* Malformed values are drawn wherever the code checks for them: an account
\* that cannot be rendered in the positions read through
\* GetAccountAddressFromMuxedAccount, a body without its payload, an asset
\* that cannot be extracted, a balance id that cannot be encoded, a result
\* without a body, a missing or short result list.  Accounts read through
\* Address() directly have a known key type, and price denominators are
\* positive.
PlainAccounts == {[ed25519 |-> k, id |-> 0] : k \in AccountKeys}

\* plain and multiplexed accounts
MuxedAccounts == {[ed25519 |-> k, id |-> m] : k \in AccountKeys, m \in 0 .. 1}

\* an account whose key type is unknown
MalformedAccount == [ed25519 |-> 0, id |-> 0]

FirstAccount == [ed25519 |-> 1, id |-> 0]

LastAccount == [ed25519 |-> NumAccounts, id |-> 0]

Assets == {NativeAsset, UsdAsset, LongAsset, UnknownAsset}

\* 1.5 and 42.5 units, and one stroop
DeclaredAmounts == {15000000, 425000000}

ExecutedAmounts == {425000000, 1}

Prices == {[N |-> 1, D |-> 2], [N |-> 2, D |-> 3]}

Flags == 0 .. MaxFlag

BodyOf(type, op) == [Type |-> type, arm |-> type, op |-> op]

NoPayload == [none |-> TRUE]

\* a body whose type tag is type but which does not hold that type's payload
MismatchedBody(type) == [Type |-> type, arm |-> -1, op |-> NoPayload]

RECURSIVE SeqsUpTo(_, _)
\* the sequences over S of length at most n
SeqsUpTo(S, n) ==
  IF n = 0 THEN {<< >>}
  ELSE LET shorter == SeqsUpTo(S, n - 1)
       IN shorter \cup {Append(q, x) : q \in {r \in shorter : Len(r) = n - 1}, x \in S}

PathPaymentStrictReceiveOps(destinations, amounts, assets, paths) ==
  [Destination : destinations, DestAmount : {15000000}, SendMax : amounts,
   DestAsset : assets, SendAsset : assets, Path : paths]

PathPaymentStrictSendOps(destinations, amounts, assets, paths) ==
  [Destination : destinations, SendAmount : amounts, DestMin : {15000000},
   DestAsset : assets, SendAsset : assets, Path : paths]

OfferOps == [Selling : Assets, Buying : Assets, Amount : {15000000}, BuyAmount : {425000000},
             Price : Prices, OfferId : {7}]

OptionalFlags == {Absent} \cup {Present(f) : f \in Flags}

SetOptionsOps ==
  [InflationDest : {Absent}, SetFlags : OptionalFlags, ClearFlags : OptionalFlags,
   MasterWeight : {Absent}, LowThreshold : {Absent}, MedThreshold : {Absent},
   HighThreshold : {Absent}, HomeDomain : {Absent}, Signer : {Absent}]
  \cup
  [InflationDest : {Present(LastAccount)}, SetFlags : OptionalFlags, ClearFlags : {Absent},
   MasterWeight : {Present(1)}, LowThreshold : {Present(2)}, MedThreshold : {Present(3)},
   HighThreshold : {Present(4)}, HomeDomain : {Present(<<"x", ".", "y">>)},
   Signer : {Present([Key |-> FirstAccount, Weight |-> 5])}]

AllowTrustOps ==
  [Trustor : {LastAccount},
   Asset : {[Type |-> AssetTypeAssetTypeCreditAlphanum4, Code |-> <<"U", "S", "D">>],
            [Type |-> AssetTypeAssetTypeCreditAlphanum12, Code |-> <<"L", "O", "N", "G", "C">>]},
   Authorize : 0 .. 2]

DataValues == {Absent, Present(<< >>), Present(<<77>>), Present(<<77, 97>>), Present(<<77, 97, 110>>)}

BalanceIds == {[Type |-> 0, Hash |-> <<171>>], [Type |-> 1, Hash |-> <<171>>]}

ClaimantLists ==
  {<< >>,
   <<[Type |-> 0, Destination |-> FirstAccount, Predicate |-> "unconditional"]>>,
   <<[Type |-> 0, Destination |-> LastAccount, Predicate |-> "before_absolute_time"],
     [Type |-> 0, Destination |-> FirstAccount, Predicate |-> "unconditional"]>>,
   <<[Type |-> 1, Destination |-> FirstAccount, Predicate |-> "unconditional"]>>}

LedgerKeys ==
  [Type : LedgerEntryTypeAccount .. LedgerEntryTypeLiquidityPool, AccountId : {LastAccount},
   BalanceId : {[Type |-> 0, Hash |-> <<171>>]}, DataName : {<<"k">>}, OfferId : {7},
   Asset : {UsdAsset}]
  \cup
  [Type : {LedgerEntryTypeClaimableBalance}, AccountId : {LastAccount},
   BalanceId : {[Type |-> 1, Hash |-> <<171>>]}, DataName : {<<"k">>}, OfferId : {7},
   Asset : {UsdAsset}]

RevokeSponsorshipOps ==
  [Type : {RevokeSponsorshipTypeRevokeSponsorshipLedgerEntry}, LedgerKey : LedgerKeys,
   Signer : {[AccountId |-> FirstAccount, SignerKey |-> LastAccount]}]
  \cup
  [Type : {RevokeSponsorshipTypeRevokeSponsorshipSigner, 2},
   LedgerKey : {CHOOSE k \in LedgerKeys : k.Type = LedgerEntryTypeAccount},
   Signer : {[AccountId |-> FirstAccount, SignerKey |-> LastAccount]}]

\* the payloads of one operation type
PayloadsOf(type) ==
  CASE type = OperationTypeCreateAccount ->
         [Destination : PlainAccounts, StartingBalance : {15000000}]
    [] type = OperationTypePayment ->
         [Destination : {LastAccount, MalformedAccount}, Asset : Assets, Amount : {15000000}]
    [] type = OperationTypePathPaymentStrictReceive ->
         PathPaymentStrictReceiveOps({LastAccount, MalformedAccount}, {425000000}, Assets,
                                     {<< >>, <<UsdAsset>>})
    [] type = OperationTypePathPaymentStrictSend ->
         PathPaymentStrictSendOps({LastAccount, MalformedAccount}, {425000000}, Assets,
                                  {<< >>, <<UsdAsset>>})
    [] type \in {OperationTypeManageBuyOffer, OperationTypeManageSellOffer,
                 OperationTypeCreatePassiveSellOffer} -> OfferOps
    [] type = OperationTypeSetOptions -> SetOptionsOps
    [] type = OperationTypeChangeTrust -> [Line : Assets, Limit : {15000000}]
    [] type = OperationTypeAllowTrust -> AllowTrustOps
    [] type = OperationTypeAccountMerge -> [Destination : {LastAccount, MalformedAccount}]
    [] type = OperationTypeManageData -> [DataName : {<<"k">>}, DataValue : DataValues]
    [] type = OperationTypeBumpSequence -> [BumpTo : {0, 1234}]
    [] type = OperationTypeCreateClaimableBalance ->
         [Asset : {NativeAsset, UsdAsset}, Amount : {15000000}, Claimants : ClaimantLists]
    [] type \in {OperationTypeClaimClaimableBalance, OperationTypeClawbackClaimableBalance} ->
         [BalanceId : BalanceIds]
    [] type = OperationTypeBeginSponsoringFutureReserves -> [SponsoredId : PlainAccounts]
    [] type = OperationTypeRevokeSponsorship -> RevokeSponsorshipOps
    [] type = OperationTypeClawback ->
         [Asset : Assets, From : {LastAccount, MalformedAccount}, Amount : {15000000}]
    [] type = OperationTypeSetTrustLineFlags ->
         [Trustor : {LastAccount}, Asset : Assets, ClearFlags : Flags, SetFlags : Flags]
    [] OTHER -> {NoPayload}

\* every supported type with its payloads and with a missing payload, a type
\* without an arm in the switch, and a negative type tag
Bodies ==
  UNION {{BodyOf(t, op) : op \in PayloadsOf(t)} : t \in SupportedTypes}
  \cup {MismatchedBody(t) : t \in SupportedTypes
          \ {OperationTypeInflation, OperationTypeEndSponsoringFutureReserves}}
  \cup {BodyOf(OperationTypeLiquidityPoolDeposit, NoPayload), BodyOf(-1, NoPayload)}

\* per-operation execution results
NoTr == [hasTr |-> FALSE, trType |-> -1, amount |-> 0]

Tr(type, amount) == [hasTr |-> TRUE, trType |-> type, amount |-> amount]

FillerResult == Tr(OperationTypeInflation, 0)

\* the result lists of at most MaxResults entries that differ from one
\* another at the operation's own index only
ResultLists(operationIndex, entries) ==
  {[i \in 1 .. n |-> IF i = operationIndex + 1 THEN e ELSE FillerResult] :
     n \in 0 .. MaxResults, e \in entries}

FillerOperation == [SourceAccount |-> NoAccount, Body |-> BodyOf(OperationTypeInflation, NoPayload)]

\* the state of a transaction result: a successful transaction holds
\* per-operation results; a failed one holds them (txFAILED) or not
ResultStates ==
  {[Successful |-> TRUE, ResultsOk |-> TRUE], [Successful |-> FALSE, ResultsOk |-> TRUE],
   [Successful |-> FALSE, ResultsOk |-> FALSE]}

Transaction(state, results, source, operations) ==
  [Index |-> 1, Successful |-> state.Successful, ResultsOk |-> state.ResultsOk,
   Results |-> IF state.ResultsOk THEN results ELSE << >>,
   SourceAccount |-> source, Operations |-> operations]

\* the operation at operationIndex preceded by filler operations
AfterFillers(operation, operationIndex) ==
  [i \in 1 .. operationIndex + 1 |-> IF i = operationIndex + 1 THEN operation ELSE FillerOperation]

\* ------------------------------------------------------------ state machine
\* input: the arguments of one call; result: its outcome; pc: "call" before
\* the call and "done" after it
VARIABLES input, result, pc

vars == <<input, result, pc>>

NotCalled == [status |-> "none", output |-> ZeroOperationOutput, err |-> NoError, trace |-> {}]

Call(operation, operationIndex, transaction) ==
  /\ input = [operation |-> operation, operationIndex |-> operationIndex,
              transaction |-> transaction, ledgerSeq |-> 1]
  /\ result = NotCalled
  /\ pc = "call"

\* every kind of operation body, at its index of a transaction whose other
\* operations are fillers
Init ==
  \E body \in Bodies, source \in {NoAccount, FirstAccount, MalformedAccount},
     transactionSource \in {LastAccount, MalformedAccount},
     state \in ResultStates, operationIndex \in 0 .. MaxOperationIndex :
    \E results \in ResultLists(operationIndex,
                     {NoTr, FillerResult, Tr(OperationTypePathPaymentStrictReceive, 1),
                      Tr(OperationTypePathPaymentStrictSend, 1)}) :
      LET operation == [SourceAccount |-> source, Body |-> body]
      IN Call(operation, operationIndex,
              Transaction(state, results, transactionSource,
                          AfterFillers(operation, operationIndex)))

\* the sibling operations of the sponsorship lookback: begin-sponsoring
\* operations with and without a source of their own, and a filler
SiblingOperations ==
  {[SourceAccount |-> s,
    Body |-> BodyOf(OperationTypeBeginSponsoringFutureReserves, [SponsoredId |-> a])] :
     s \in {NoAccount, MalformedAccount} \cup PlainAccounts, a \in PlainAccounts}
  \cup {FillerOperation}

\* an end-sponsoring operation after up to MaxSiblings sibling operations and
\* before at most one more
InitSponsorship ==
  \E source \in {NoAccount} \cup MuxedAccounts, transactionSource \in PlainAccounts,
     state \in ResultStates, before \in SeqsUpTo(SiblingOperations, MaxSiblings),
     after \in SeqsUpTo({o \in SiblingOperations : o.SourceAccount = NoAccount}, 1),
     missingResults \in 0 .. 1 :
    LET operation == [SourceAccount |-> source,
                      Body |-> BodyOf(OperationTypeEndSponsoringFutureReserves, NoPayload)]
        operationIndex == Len(before)
        results == [i \in 1 .. operationIndex + 1 - missingResults |-> FillerResult]
    IN Call(operation, operationIndex,
            Transaction(state, results, transactionSource, before \o <<operation>> \o after))

PathAssets == {NativeAsset, UsdAsset, UnknownAsset}

PathPaymentBodies ==
  {BodyOf(OperationTypePathPaymentStrictReceive, op) :
     op \in PathPaymentStrictReceiveOps({LastAccount, MalformedAccount}, DeclaredAmounts,
                                        {NativeAsset, UsdAsset}, SeqsUpTo(PathAssets, MaxPathLen))}
  \cup
  {BodyOf(OperationTypePathPaymentStrictSend, op) :
     op \in PathPaymentStrictSendOps({LastAccount, MalformedAccount}, DeclaredAmounts,
                                     {NativeAsset, UsdAsset}, SeqsUpTo(PathAssets, MaxPathLen))}
  \cup
  {MismatchedBody(OperationTypePathPaymentStrictReceive),
   MismatchedBody(OperationTypePathPaymentStrictSend)}

PathPaymentResults ==
  {NoTr, FillerResult}
  \cup {Tr(t, a) : t \in {OperationTypePathPaymentStrictReceive,
                          OperationTypePathPaymentStrictSend}, a \in ExecutedAmounts}

\* the two path payments against every kind of execution result
InitPathPayment ==
  \E body \in PathPaymentBodies, source \in {NoAccount, FirstAccount},
     state \in ResultStates, operationIndex \in 0 .. MaxOperationIndex :
    \E results \in ResultLists(operationIndex, PathPaymentResults) :
      LET operation == [SourceAccount |-> source, Body |-> body]
      IN Call(operation, operationIndex,
              Transaction(state, results, LastAccount,
                          AfterFillers(operation, operationIndex)))

\* an operation at every operation index of every transaction index of
\* every ledger sequence up to the bounds
InitIdentifiers ==
  \E body \in {b \in Bodies : b.Type \in {OperationTypeCreateAccount, OperationTypeInflation,
                                          OperationTypeBumpSequence, -1}},
     source \in {NoAccount, FirstAccount, MalformedAccount},
     state \in ResultStates, ledgerSeq \in 1 .. MaxLedgerSeq,
     transactionIndex \in 1 .. MaxTransactionIndex, operationIndex \in 0 .. MaxOperationIndex :
    LET operation == [SourceAccount |-> source, Body |-> body]
        results == [i \in 1 .. operationIndex + 1 |-> FillerResult]
        transaction == Transaction(state, results, LastAccount,
                                   AfterFillers(operation, operationIndex))
    IN /\ input = [operation |-> operation, operationIndex |-> operationIndex,
                   transaction |-> [transaction EXCEPT !.Index = transactionIndex],
                   ledgerSeq |-> ledgerSeq]
       /\ result = NotCalled
       /\ pc = "call"

\* the call itself
CallTransformOperation ==
  /\ pc = "call"
  /\ result' = TransformOperation(input.operation, input.operationIndex,
                                  input.transaction, input.ledgerSeq)
  /\ pc' = "done"
  /\ UNCHANGED input

Next == CallTransformOperation

Spec == Init /\ [][Next]_vars

SpecSponsorship == InitSponsorship /\ [][Next]_vars

SpecPathPayment == InitPathPayment /\ [][Next]_vars

SpecIdentifiers == InitIdentifiers /\ [][Next]_vars

\* ---------------------------------------------- contract storage inputs
\* one call of either function on an entry and a passphrase.  The entries:
\* contract instances whose storage is absent, empty, or holds asset info
\* values (well shaped with every tag, code and issuer, or failing one check
\* of the shape), under contract ids that are absent, derived from an asset
\* under either passphrase, or of no asset contract; and balance entries
\* with every kind of key and value, the amount words drawn from
\* -MaxWord .. MaxWord
InitContractData ==
  LET
      Passphrases ==
        {"Public Global Stellar Network ; September 2015", "Test SDF Network ; September 2015"}
      \* an asset info value of the shape the Stellar Asset Contract writes
      AssetInfo(sym, code, bytes) ==
        ScVec(<<ScSymbol(sym),
                ScMap(<<ScMapEntry(ScSymbol("asset_code"), ScString(code)),
                        ScMapEntry(ScSymbol("issuer"), ScBytes(bytes))>>)>>)
      UsdAssetInfo == AssetInfo("AlphaNum4", UsdAsset.Code, 1)
      \* asset info values: well shaped ones with every tag, code and issuer, and
      \* one that fails each check of the shape
      AssetInfoValues ==
        {AssetInfo(sym, code, bytes) :
           sym \in {"AlphaNum4", "AlphaNum12", "Native"},
           code \in {UsdAsset.Code, LongAsset.Code, EmptyString, <<"$">>},
           bytes \in {-1, 0, 1, NumAccounts}}
        \cup
        {ScSymbol("AssetInfo"), ScValOf("ScvVec"), ScVec(<<ScSymbol("AlphaNum4")>>),
         ScVec(<<ScString(UsdAsset.Code), UsdAssetInfo.Vec.elems[2]>>),
         ScVec(<<ScSymbol("AlphaNum4"), ScSymbol("issuer")>>),
         ScVec(<<ScSymbol("AlphaNum4"), ScValOf("ScvMap")>>),
         ScVec(<<ScSymbol("AlphaNum4"),
                 ScMap(<<ScMapEntry(ScSymbol("asset_code"), ScString(UsdAsset.Code))>>)>>),
         ScVec(<<ScSymbol("AlphaNum4"),
                 ScMap(<<ScMapEntry(ScSymbol("issuer"), ScBytes(1)),
                         ScMapEntry(ScSymbol("asset_code"), ScString(UsdAsset.Code))>>)>>),
         ScVec(<<ScSymbol("AlphaNum4"),
                 ScMap(<<ScMapEntry(ScString(<<"a">>), ScString(UsdAsset.Code)),
                         ScMapEntry(ScSymbol("issuer"), ScBytes(1))>>)>>),
         ScVec(<<ScSymbol("AlphaNum4"),
                 ScMap(<<ScMapEntry(ScSymbol("asset_code"), ScSymbol("USD")),
                         ScMapEntry(ScSymbol("issuer"), ScBytes(1))>>)>>),
         ScVec(<<ScSymbol("AlphaNum4"),
                 ScMap(<<ScMapEntry(ScSymbol("asset_code"), ScString(UsdAsset.Code)),
                         ScMapEntry(ScString(<<"i">>), ScBytes(1))>>)>>),
         ScVec(<<ScSymbol("AlphaNum4"),
                 ScMap(<<ScMapEntry(ScSymbol("asset_code"), ScString(UsdAsset.Code)),
                         ScMapEntry(ScSymbol("issuer"), ScString(<<"G", "A">>))>>)>>)}
      MetadataEntry == ScMapEntry(ScSymbol("METADATA"), ScMap(<< >>))
      \* instance storages: absent, empty, holding one asset info, holding it
      \* after another entry, and holding two asset infos
      Storages ==
        {NilSlice, EmptySlice, [isNil |-> FALSE, elems |-> <<MetadataEntry>>]}
        \cup {[isNil |-> FALSE, elems |-> <<ScMapEntry(assetInfoKey, v)>>] : v \in AssetInfoValues}
        \cup {[isNil |-> FALSE, elems |-> <<MetadataEntry, ScMapEntry(assetInfoKey, UsdAssetInfo)>>],
              [isNil |-> FALSE,
               elems |-> <<ScMapEntry(assetInfoKey, AssetInfo("Native", UsdAsset.Code, 1)),
                           ScMapEntry(assetInfoKey, UsdAssetInfo)>>]}
      \* contract ids: absent, of the native asset and of credit assets under
      \* either passphrase, and of a contract that is no asset contract
      ContractIds ==
        {NilHash, HashPtr(Hash("", UnknownAsset))}
        \cup {HashPtr(ContractID(asset, passphrase)) :
                asset \in {NativeAsset, UsdAsset, LongAsset}, passphrase \in Passphrases}
      ContractDataEntry(type, contractId, key, val) ==
        [Data |-> [Type |-> type,
                   ContractData |-> [Contract |-> [ContractId |-> contractId],
                                     Key |-> key, Val |-> val]]]
      \* contract instance entries, and one entry failing each of the first checks
      InstanceEntries ==
        {ContractDataEntry("ContractData", id, ScValOf("ScvLedgerKeyContractInstance"),
                           ScContractInstance(storage)) :
           id \in ContractIds, storage \in Storages}
        \cup
        {ContractDataEntry("Account", HashPtr(ContractID(UsdAsset, p)),
                           ScValOf("ScvLedgerKeyContractInstance"),
                           ScContractInstance(EmptySlice)) : p \in Passphrases}
        \cup
        {ContractDataEntry("ContractData", HashPtr(ContractID(UsdAsset, p)), key, val) :
           p \in Passphrases,
           key \in {ScValOf("ScvLedgerKeyNonce"), ScValOf("ScvLedgerKeyContractInstance")},
           val \in {ScMap(<< >>), UsdAssetInfo}}
      HolderHash == Hash("", LongAsset)
      BalanceKey == ScVec(<<ScSymbol("Balance"), ScAddressVal(ScAddress("Contract", HolderHash))>>)
      BalanceKeys ==
        {BalanceKey, ScValOf("ScvVec"), ScValOf("ScvLedgerKeyContractInstance"),
         ScVec(<<ScSymbol("Balance")>>),
         ScVec(<<ScSymbol("Admin"), ScAddressVal(ScAddress("Contract", HolderHash))>>),
         ScVec(<<ScString(<<"B">>), ScAddressVal(ScAddress("Contract", HolderHash))>>),
         ScVec(<<ScSymbol("Balance"), ScSymbol("Balance")>>),
         ScVec(<<ScSymbol("Balance"), ScAddressVal(ScAddress("Account", ZeroHash))>>)}
      BalanceMap(amountKey, amount, authorizedKey, authorized, clawbackKey, clawback) ==
        ScMap(<<ScMapEntry(ScSymbol(amountKey), amount),
                ScMapEntry(ScSymbol(authorizedKey), authorized),
                ScMapEntry(ScSymbol(clawbackKey), clawback)>>)
      \* the words of the 128-bit amounts: Hi signed, Lo unsigned
      HiWords == {-MaxWord, -1, 0, 1, MaxWord}
      LoWords == {0, 1, MaxWord}
      BalanceValues ==
        {BalanceMap("amount", ScI128(hi, lo), "authorized", ScBool(TRUE), "clawback", ScBool(FALSE)) :
           hi \in HiWords, lo \in LoWords}
        \cup
        {ScValOf("ScvMap"), ScI128(0, 1), ScMap(<< >>),
         ScMap(<<ScMapEntry(ScSymbol("amount"), ScI128(0, 1)),
                 ScMapEntry(ScSymbol("authorized"), ScBool(TRUE))>>),
         BalanceMap("balance", ScI128(0, 1), "authorized", ScBool(TRUE), "clawback", ScBool(FALSE)),
         BalanceMap("amount", ScI128(0, 1), "authorised", ScBool(TRUE), "clawback", ScBool(FALSE)),
         BalanceMap("amount", ScI128(0, 1), "authorized", ScBool(TRUE), "clawbacks", ScBool(FALSE)),
         BalanceMap("amount", ScI128(0, 1), "authorized", ScSymbol("yes"), "clawback", ScBool(FALSE)),
         BalanceMap("amount", ScI128(0, 1), "authorized", ScBool(TRUE), "clawback", ScSymbol("no")),
         BalanceMap("amount", ScString(<<"1">>), "authorized", ScBool(TRUE), "clawback", ScBool(FALSE)),
         ScMap(<<ScMapEntry(ScString(<<"a">>), ScI128(0, 1)),
                 ScMapEntry(ScSymbol("authorized"), ScBool(TRUE)),
                 ScMapEntry(ScSymbol("clawback"), ScBool(FALSE))>>)}
      BalanceEntries ==
        {ContractDataEntry(type, id, key, val) :
           type \in {"ContractData"},
           id \in {NilHash, HashPtr(ContractID(UsdAsset, "Test SDF Network ; September 2015"))},
           key \in BalanceKeys, val \in BalanceValues}
        \cup
        {ContractDataEntry("Account", HashPtr(Hash("", UnknownAsset)), BalanceKey, val) :
           val \in BalanceValues}
  IN \E call \in {"asset", "balance"}, ledgerEntry \in InstanceEntries \cup BalanceEntries,
        passphrase \in Passphrases :
       /\ input = [call |-> call, ledgerEntry |-> ledgerEntry, passphrase |-> passphrase]
       /\ result = NotCalled
       /\ pc = "call"

CallAssetFromContractData ==
  /\ pc = "call" /\ input.call = "asset"
  /\ result' = AssetFromContractData(input.ledgerEntry, input.passphrase)
  /\ pc' = "done"
  /\ UNCHANGED input

CallContractBalanceFromContractData ==
  /\ pc = "call" /\ input.call = "balance"
  /\ result' = ContractBalanceFromContractData(input.ledgerEntry, input.passphrase)
  /\ pc' = "done"
  /\ UNCHANGED input

NextContractData == CallAssetFromContractData \/ CallContractBalanceFromContractData

SpecContractData == InitContractData /\ [][NextContractData]_vars

\* ------------------------------------------------ config setting inputs
\* one call on a change (created, updated, removed, or holding no entry) of
\* a ledger entry that holds a setting of any arm or is of another type
InitConfigSetting ==
  LET
      ConfigSetting(id, v) == [ConfigSettingId |-> id, v |-> v]
      CostParams == {<< >>, <<[ExtV |-> 0, ConstTerm |-> 4, LinearTerm |-> 0]>>,
                     <<[ExtV |-> 0, ConstTerm |-> -17, LinearTerm |-> 325]>>}
      \* the settings of the arm with the given id
      ConfigSettingsOf(id) ==
        CASE id = 0 -> {ConfigSetting(0, v) : v \in {0, 65536}}
          [] id = 1 -> {ConfigSetting(1, [LedgerMaxInstructions |-> 100, TxMaxInstructions |-> 10,
                                         FeeRatePerInstructionsIncrement |-> 2, TxMemoryLimit |-> m]) :
                          m \in {0, 40}}
          [] id = 2 -> {ConfigSetting(2, [ZeroArm("ContractLedgerCost") EXCEPT
                                           !.LedgerMaxReadBytes = 1000, !.TxMaxWriteBytes = 500,
                                           !.FeeRead1Kb = f, !.BucketListWriteFeeGrowthFactor = 3]) :
                          f \in {0, 1786}}
          [] id = 3 -> {ConfigSetting(3, [FeeHistorical1Kb |-> f]) : f \in {0, 100}}
          [] id = 4 -> {ConfigSetting(4, [TxMaxContractEventsSizeBytes |-> 200,
                                         FeeContractEvents1Kb |-> f]) : f \in {0, 200}}
          [] id = 5 -> {ConfigSetting(5, [LedgerMaxTxsSizeBytes |-> 100000, TxMaxSizeBytes |-> 1000,
                                         FeeTxSize1Kb |-> f]) : f \in {0, 2000}}
          [] id \in {6, 7} -> {ConfigSetting(id, params) : params \in CostParams}
          [] id \in {8, 9} -> {ConfigSetting(id, v) : v \in {0, 300}}
          [] id = 10 -> {ConfigSetting(10, [ZeroArm("StateExpirationSettings") EXCEPT
                                             !.MaxEntryExpiration = 6312000,
                                             !.MinTempEntryExpiration = 16,
                                             !.EvictionScanSize = 100000,
                                             !.StartingEvictionScanLevel = l]) : l \in {0, 6}}
          [] id = 11 -> {ConfigSetting(11, [LedgerMaxTxCount |-> c]) : c \in {0, 100}}
          [] id = 12 -> {ConfigSetting(12, w) : w \in {<< >>, <<1000, 2000>>}}
          [] id = 13 -> {ConfigSetting(13, 0)}
      \* a ledger entry of the given type; its config setting is only there when
      \* the type is "ConfigSetting"
      LedgerEntry(seq, type, configSetting) ==
        [LastModifiedLedgerSeq |-> seq, Data |-> [Type |-> type, ConfigSetting |-> configSetting]]
      EntryTypes == {"ConfigSetting", "Account", "ContractData"}
      \* a nil *xdr.LedgerEntry
      NoEntry(entry) == [isNil |-> TRUE, entry |-> entry]
      EntryPtr(entry) == [isNil |-> FALSE, entry |-> entry]
      \* the changes of one entry: created, updated, removed, and a change that
      \* holds no entry
      ChangesOf(entry) ==
        {[Pre |-> NoEntry(entry), Post |-> EntryPtr(entry)],
         [Pre |-> EntryPtr(entry), Post |-> EntryPtr(entry)],
         [Pre |-> EntryPtr(entry), Post |-> NoEntry(entry)],
         [Pre |-> NoEntry(entry), Post |-> NoEntry(entry)]}
  IN \E id \in 0 .. Len(ConfigSettingArms) - 1, seq \in {7, 30705278}, type \in EntryTypes :
       \E configSetting \in ConfigSettingsOf(id) :
         \E ledgerChange \in ChangesOf(LedgerEntry(seq, type, configSetting)) :
           /\ input = [ledgerChange |-> ledgerChange]
           /\ result = NotCalled
           /\ pc = "call"

CallTransformConfigSetting ==
  /\ pc = "call"
  /\ result' = TransformConfigSetting(input.ledgerChange)
  /\ pc' = "done"
  /\ UNCHANGED input

NextConfigSetting == CallTransformConfigSetting

SpecConfigSetting == InitConfigSetting /\ [][NextConfigSetting]_vars

\* ------------------------------------------------------------------ claims
Done == pc = "done"

TheOperation == input.operation

TheTransaction == input.transaction

TheType == input.operation.Body.Type

TheDetails == result.output.OperationDetails

\* the account the operation acts for: its own source, else the transaction's
SourceOf(operation) ==
  IF operation.SourceAccount = NoAccount
  THEN TheTransaction.SourceAccount
  ELSE operation.SourceAccount

\* the execution result list holds an entry at the operation's own index
HasOwnResult ==
  TheTransaction.ResultsOk /\ input.operationIndex < Len(TheTransaction.Results)

OwnResult == TheTransaction.Results[input.operationIndex + 1]

\* the indices below the operation's own of the begin-sponsoring operations
\* that sponsor the account the operation acts for
QualifyingBegins ==
  {j \in 0 .. input.operationIndex - 1 :
     LET sibling == TheTransaction.Operations[j + 1]
     IN /\ sibling.Body.Type = OperationTypeBeginSponsoringFutureReserves
        /\ sibling.Body.op.SponsoredId.ed25519 = SourceOf(TheOperation).ed25519}

NearestBegin ==
  TheTransaction.Operations[(CHOOSE j \in QualifyingBegins : \A k \in QualifyingBegins : k <= j) + 1]

EndSponsoringDone == Done /\ TheType = OperationTypeEndSponsoringFutureReserves

\* C1: for an end-sponsoring operation at index i of a successful
\* transaction, a returned record's begin_sponsor is the address of the source
\* (its own, else the transaction's) of the begin-sponsoring operation with
\* the highest index j < i that sponsors the end operation's source account;
\* when no operation below i qualifies the lookback is not an error: the
\* record is returned with an empty begin_sponsor.  Operations at index i or
\* above never count.
C1_BeginSponsorIsNearestPrecedingBegin ==
  (EndSponsoringDone /\ TheTransaction.Successful) =>
    /\ (result.status = "ok" /\ QualifyingBegins # {}) =>
         /\ AddressDecodable(SourceOf(NearestBegin))
         /\ TheDetails.BeginSponsor = AddressTable[SourceOf(NearestBegin).ed25519]
    /\ (HasOwnResult /\ QualifyingBegins = {}) =>
         (result.status = "ok" /\ TheDetails.BeginSponsor = EmptyString)

\* C1 witness: two preceding begin operations with different sponsors
\* qualify, a third one follows the end operation, and the record names the
\* sponsor of the nearest preceding one
C1_Witness ==
  /\ EndSponsoringDone /\ TheTransaction.Successful /\ result.status = "ok"
  /\ Cardinality(QualifyingBegins) = 2
  /\ \E j \in QualifyingBegins :
       SourceOf(TheTransaction.Operations[j + 1]) # SourceOf(NearestBegin)
  /\ \E k \in input.operationIndex + 2 .. Len(TheTransaction.Operations) :
       /\ TheTransaction.Operations[k].Body.Type = OperationTypeBeginSponsoringFutureReserves
       /\ TheTransaction.Operations[k].Body.op.SponsoredId.ed25519 = SourceOf(TheOperation).ed25519
  /\ TheOperation.SourceAccount.id > 0
  /\ TheDetails.BeginSponsor = AddressTable[SourceOf(NearestBegin).ed25519]

\* C2 (as claimed): for an end-sponsoring operation inside a failed
\* transaction the transform yields a record whose begin_sponsor is empty,
\* whatever the sibling operations are, and the lookback scan is not run
C2_FailedTransactionYieldsEmptyBeginSponsor ==
  (EndSponsoringDone /\ ~TheTransaction.Successful) =>
    /\ result.status = "ok"
    /\ TheDetails.BeginSponsor = EmptyString
    /\ "sponsorScan" \notin result.trace

StrictReceiveDone == Done /\ TheType = OperationTypePathPaymentStrictReceive

StrictSendDone == Done /\ TheType = OperationTypePathPaymentStrictSend

\* the decimal value of a number of stroops
Decimal(stroops) == <<stroops \div 10000000, stroops % 10000000>>

\* C3: for a path_payment_strict_receive operation in a successful
\* transaction, a returned record's source_amount is the send amount of the
\* execution result at the operation's own index, whatever the declared
\* send-max is, and the send-max is reported as source_max
C3_StrictReceiveSourceAmountFromResult ==
  (StrictReceiveDone /\ TheTransaction.Successful /\ result.status = "ok") =>
    /\ HasOwnResult
    /\ TheDetails.SourceAmount = Decimal(OwnResult.amount)
    /\ TheDetails.SourceMax = Decimal(TheOperation.Body.op.SendMax)

\* C3 witness: a record whose source_amount (from the result) differs from
\* its source_max (from the operation), at an index other than 0
C3_Witness ==
  /\ StrictReceiveDone /\ TheTransaction.Successful /\ result.status = "ok"
  /\ input.operationIndex > 0
  /\ OwnResult.amount # TheOperation.Body.op.SendMax
  /\ TheDetails.SourceAmount = Decimal(OwnResult.amount)
  /\ TheDetails.SourceAmount # TheDetails.SourceMax

\* C4 (as claimed): for a path_payment_strict_receive operation in a failed
\* transaction no execution result is looked up, so an operation that is
\* otherwise well formed yields a record, with source_amount at its zero
\* default, whether or not the result list is accessible and however many
\* entries it holds
C4_FailedStrictReceiveIgnoresResults ==
  (StrictReceiveDone /\ ~TheTransaction.Successful) =>
    ((/\ TheOperation.Body.arm = TheType
      /\ AddressDecodable(SourceOf(TheOperation))
      /\ AddressDecodable(TheOperation.Body.op.Destination)) =>
       (result.status = "ok" /\ TheDetails.SourceAmount = ZeroReal))

\* C5: for a path_payment_strict_send operation a returned record's
\* source_amount is the declared send amount; its amount is the destination
\* amount of the operation's own execution result when the transaction
\* succeeded and the zero default when it failed
C5_StrictSendAmounts ==
  (StrictSendDone /\ result.status = "ok") =>
    /\ TheDetails.SourceAmount = Decimal(TheOperation.Body.op.SendAmount)
    /\ TheTransaction.Successful =>
         (HasOwnResult /\ TheDetails.Amount = Decimal(OwnResult.amount))
    /\ ~TheTransaction.Successful => TheDetails.Amount = ZeroReal

\* C5 witness: a strict-send record of a successful transaction whose amount
\* comes from the result and differs from the declared send amount
C5_Witness ==
  /\ StrictSendDone /\ result.status = "ok" /\ TheTransaction.Successful
  /\ OwnResult.amount # TheOperation.Body.op.SendAmount
  /\ TheDetails.Amount = Decimal(OwnResult.amount)
  /\ TheDetails.SourceAmount = Decimal(TheOperation.Body.op.SendAmount)

\* the operation's own result has a body of the operation's own kind
OwnResultMatches == OwnResult.hasTr /\ OwnResult.trType = TheType

PathPaymentDone == StrictReceiveDone \/ StrictSendDone

\* C6: for a path payment in a successful transaction whose own execution
\* result has no body, or a body of another kind, the transform fails with
\* an error and returns no record; a record is only ever returned when the
\* result is there and of the matching kind
C6_PathPaymentNeedsMatchingResult ==
  (PathPaymentDone /\ TheTransaction.Successful) =>
    /\ (HasOwnResult /\ ~OwnResultMatches) =>
         (result.status = "error" /\ result.output = ZeroOperationOutput)
    /\ result.status = "ok" => (HasOwnResult /\ OwnResultMatches)

\* C6 witness: a well-formed strict-send payment of a successful transaction
\* whose own result is the result of a strict-receive payment fails with the
\* error of the result-kind check
C6_Witness ==
  /\ StrictSendDone /\ TheTransaction.Successful /\ HasOwnResult
  /\ TheOperation.Body.arm = TheType
  /\ AddressDecodable(TheOperation.Body.op.Destination)
  /\ OwnResult.hasTr /\ OwnResult.trType = OperationTypePathPaymentStrictReceive
  /\ result.status = "error"
  /\ result.err.msg = "Could not access GetPathPaymentStrictSendResult result info"

UsesPath == TheType \in {OperationTypePathPaymentStrictReceive, OperationTypePathPaymentStrictSend}

UsesFlags == TheType \in {OperationTypeSetOptions, OperationTypeSetTrustLineFlags}

ListFields == {"Path", "SetFlags", "SetFlagsString", "ClearFlags", "ClearFlagsString"}

\* C7: in every record returned without error, for every operation kind,
\* path, set_flags, set_flags_string, clear_flags and clear_flags_string are
\* present (not nil), and they are empty for the kinds that do not use them
C7_ListFieldsNeverNil ==
  (Done /\ result.status = "ok") =>
    /\ \A f \in ListFields : ~TheDetails[f].isNil
    /\ ~UsesPath => TheDetails.Path.elems = << >>
    /\ ~UsesFlags => \A f \in ListFields \ {"Path"} : TheDetails[f].elems = << >>

\* C7 witness: a create_account record with path = [] and set_flags = []
C7_Witness ==
  /\ Done /\ result.status = "ok" /\ TheType = OperationTypeCreateAccount
  /\ TheDetails.Path = EmptySlice /\ TheDetails.SetFlags = EmptySlice
  /\ TheDetails.ClearFlagsString = EmptySlice

\* C8 (as claimed): an operation whose type tag has no arm in the dispatcher
\* makes the transform fail with the unknown-operation-type error and the
\* empty record, whatever the state of the transaction (successful or
\* failed, results available or not)
C8_UnknownTypeAlwaysUnsupportedError ==
  (Done /\ TheType >= 0 /\ TheType \notin SupportedTypes
        /\ AddressDecodable(SourceOf(TheOperation))) =>
    /\ result.status = "error"
    /\ result.err.msg = "Unknown operation type"
    /\ result.output = ZeroOperationOutput

\* C9 (as claimed): for every supported kind, a body that does not hold the
\* payload of its type tag makes the transform return an error value, never
\* crash, once the source account and the operation's own result are there
C9_MissingPayloadIsAnError ==
  (Done /\ TheType \in SupportedTypes /\ TheOperation.Body.arm # TheType
        /\ AddressDecodable(SourceOf(TheOperation)) /\ HasOwnResult) =>
    result.status = "error"

\* C10 (as claimed): every error returned by TransformOperation carries the
\* operation index and the operation id
C10_EveryErrorLocatesTheOperation ==
  (Done /\ result.status = "error") => (result.err.hasIndex /\ result.err.hasId)

\* the numeric order of two packed ids: the ledger sequence holds the high
\* bits, then the transaction index, then the operation slot
IdLess(a, b) ==
  \/ a[1] < b[1]
  \/ a[1] = b[1] /\ a[2] < b[2]
  \/ a[1] = b[1] /\ a[2] = b[2] /\ a[3] < b[3]

\* the same operation transformed at another position of the ledger stream
ElsewhereCall(ledgerSeq, transactionIndex, operationIndex) ==
  TransformOperation(TheOperation, operationIndex,
                     [TheTransaction EXCEPT
                        !.Index = transactionIndex,
                        !.Results = [i \in 1 .. operationIndex + 1 |-> FillerResult],
                        !.Operations = AfterFillers(TheOperation, operationIndex)],
                     ledgerSeq)

\* C11: in every returned record the transaction id is smaller than the
\* operation id; the operation id grows with the operation index inside one
\* transaction; every id of a lower ledger sequence is smaller than every id
\* of a higher one, whatever the transaction and operation indices.
C11_IdsFollowApplicationOrder ==
  (Done /\ result.status = "ok") =>
    LET out == result.output
    IN /\ IdLess(out.TransactionID, out.OperationID)
       /\ \A operationIndex \in 0 .. MaxOperationIndex :
            LET later == ElsewhereCall(input.ledgerSeq, TheTransaction.Index, operationIndex)
            IN (operationIndex > input.operationIndex /\ later.status = "ok") =>
                 /\ later.output.TransactionID = out.TransactionID
                 /\ IdLess(out.OperationID, later.output.OperationID)
       /\ \A ledgerSeq \in 1 .. MaxLedgerSeq, transactionIndex \in 1 .. MaxTransactionIndex,
             operationIndex \in 0 .. MaxOperationIndex :
            LET later == ElsewhereCall(ledgerSeq, transactionIndex, operationIndex)
            IN (ledgerSeq > input.ledgerSeq /\ later.status = "ok") =>
                 \A mine \in {out.TransactionID, out.OperationID},
                    theirs \in {later.output.TransactionID, later.output.OperationID} :
                   IdLess(mine, theirs)

\* the last operation of the last transaction of ledger 1, against the first
\* operation of the first transaction of ledger 2 and against itself one
\* index earlier
C11_Witness ==
  /\ Done /\ result.status = "ok"
  /\ input.ledgerSeq = 1 /\ TheTransaction.Index = MaxTransactionIndex
  /\ input.operationIndex = MaxOperationIndex
  /\ ElsewhereCall(2, 1, 0).status = "ok"
  /\ IdLess(result.output.OperationID, ElsewhereCall(2, 1, 0).output.TransactionID)
  /\ ElsewhereCall(1, MaxTransactionIndex, 0).status = "ok"
  /\ IdLess(ElsewhereCall(1, MaxTransactionIndex, 0).output.OperationID,
            result.output.OperationID)

\* C12: every returned record has application_order = operationIndex + 1 and
\* a type tag that is not negative; a negative type tag ends in an error with
\* no record, raised before any detail extraction: nothing of the transaction
\* result is read, whatever its state.
C12_ApplicationOrderAndTypeCheck ==
  Done =>
    /\ result.status = "ok" =>
         /\ result.output.ApplicationOrder = input.operationIndex + 1
         /\ result.output.Type = TheType
         /\ result.output.Type >= 0
    /\ TheType < 0 =>
         /\ result.status = "error"
         /\ result.output = ZeroOperationOutput
         /\ result.trace = {}
         /\ GetAccountAddressFromMuxedAccount(SourceOf(TheOperation)).ok =>
              result.err = Error("The operation type is negative", TRUE, TRUE)

\* a negative type tag in a transaction whose results cannot be accessed and
\* whose result list would be too short for the index
C12_Witness ==
  /\ Done /\ TheType < 0
  /\ ~TheTransaction.ResultsOk
  /\ input.operationIndex >= Len(TheTransaction.Results)
  /\ result.err = Error("The operation type is negative", TRUE, TRUE)

\* the three named bits of a flag word, in the order of emission
NamedBits == <<1, 2, 4>>

AccountFlagNames == <<"auth_required", "auth_revocable", "auth_immutable">>

TrustLineFlagNames == <<"authorized", "authorized_to_maintain_liabilities", "clawback_enabled">>

\* the positions of the named bits that are set in flag, ascending
SetPositions(flag) ==
  SelectSeq(<<1, 2, 3>>, LAMBDA k : (flag \div NamedBits[k]) % 2 = 1)

\* the two parallel sequences the claim describes for a flag word
FlagValues(flag) == [i \in 1 .. Len(SetPositions(flag)) |-> NamedBits[SetPositions(flag)[i]]]

FlagNames(flag, names) == [i \in 1 .. Len(SetPositions(flag)) |-> names[SetPositions(flag)[i]]]

\* the set and clear flag words of the operation, 0 when the operation has
\* none
FlagWord(field) ==
  IF TheType = OperationTypeSetOptions
  THEN (IF field.present THEN field.value ELSE 0)
  ELSE field

FlagsDone ==
  /\ Done /\ result.status = "ok"
  /\ TheType \in {OperationTypeSetOptions, OperationTypeSetTrustLineFlags}

\* C13: the flag decomposition emits two parallel sequences of equal length,
\* the values and the names of exactly the named bits that are set, in the
\* fixed order, omitting unset bits; the set flags determine set_flags and
\* set_flags_string only, the clear flags clear_flags and clear_flags_string
\* only.
C13_FlagDecomposition ==
  FlagsDone =>
    LET names == IF TheType = OperationTypeSetOptions
                 THEN AccountFlagNames ELSE TrustLineFlagNames
        set == FlagWord(TheOperation.Body.op.SetFlags)
        clear == FlagWord(TheOperation.Body.op.ClearFlags)
    IN /\ TheDetails.SetFlags.elems = FlagValues(set)
       /\ TheDetails.SetFlagsString.elems = FlagNames(set, names)
       /\ Len(TheDetails.SetFlags.elems) = Len(TheDetails.SetFlagsString.elems)
       /\ TheDetails.ClearFlags.elems = FlagValues(clear)
       /\ TheDetails.ClearFlagsString.elems = FlagNames(clear, names)
       /\ Len(TheDetails.ClearFlags.elems) = Len(TheDetails.ClearFlagsString.elems)

\* set_options setting revocable and immutable and clearing required
C13_Witness ==
  /\ FlagsDone /\ TheType = OperationTypeSetOptions
  /\ TheOperation.Body.op.SetFlags = Present(6)
  /\ TheOperation.Body.op.ClearFlags = Present(1)
  /\ TheDetails.SetFlags.elems = <<2, 4>>
  /\ TheDetails.SetFlagsString.elems = <<"auth_revocable", "auth_immutable">>
  /\ TheDetails.ClearFlagsString.elems = <<"auth_required">>

\* the four asset slots of the detail record: the fields of each
SlotOf(prefix) ==
  CASE prefix = "buying" ->
         [type |-> "BuyingAssetType", code |-> "BuyingAssetCode", issuer |-> "BuyingAssetIssuer"]
    [] prefix = "selling" ->
         [type |-> "SellingAssetType", code |-> "SellingAssetCode", issuer |-> "SellingAssetIssuer"]
    [] prefix = "source" ->
         [type |-> "SourceAssetType", code |-> "SourceAssetCode", issuer |-> "SourceAssetIssuer"]
    [] OTHER ->
         [type |-> "AssetType", code |-> "AssetCode", issuer |-> "AssetIssuer"]

SlotPrefixes == {"", "buying", "selling", "source"}

ExtractableAssets == {NativeAsset, UsdAsset, LongAsset}

AssetTypeName(asset) ==
  CASE asset.Type = AssetTypeAssetTypeNative -> "native"
    [] asset.Type = AssetTypeAssetTypeCreditAlphanum4 -> "credit_alphanum4"
    [] asset.Type = AssetTypeAssetTypeCreditAlphanum12 -> "credit_alphanum12"

\* extraction of asset into the slot of prefix, on the record before, writes
\* that slot only: the type always, the code and issuer for a non-native
\* asset
WritesOnlyItsSlot(before, asset, prefix) ==
  LET extraction == addAssetDetailsToOperationDetails(before, asset, prefix)
      after == extraction.details
      slot == SlotOf(prefix)
  IN /\ extraction.ok
     /\ \A field \in DOMAIN before \ {slot.type, slot.code, slot.issuer} :
          after[field] = before[field]
     /\ after[slot.type] = AssetTypeName(asset)
     /\ IF asset.Type = AssetTypeAssetTypeNative
        THEN after[slot.code] = before[slot.code] /\ after[slot.issuer] = before[slot.issuer]
        ELSE after[slot.code] = asset.Code /\ after[slot.issuer] = Address(asset.Issuer)

AssetKinds ==
  {OperationTypePayment, OperationTypePathPaymentStrictReceive,
   OperationTypePathPaymentStrictSend, OperationTypeManageBuyOffer,
   OperationTypeManageSellOffer, OperationTypeCreatePassiveSellOffer,
   OperationTypeChangeTrust, OperationTypeAllowTrust, OperationTypeClawback,
   OperationTypeSetTrustLineFlags}

\* C14: asset extraction into one of the four slots writes that slot's
\* type, code and issuer only and leaves the other slots and every other
\* detail field as they were; a native asset writes the type only, so that
\* the code and issuer of a fresh slot stay empty; a non-native asset
\* populates code and issuer.  Checked on the empty record and on every
\* returned record of a kind that carries an asset.
C14_AssetExtractionWritesOneSlot ==
  (Done /\ result.status = "ok" /\ TheType \in AssetKinds) =>
    \A prefix \in SlotPrefixes, asset \in ExtractableAssets :
      /\ WritesOnlyItsSlot(TheDetails, asset, prefix)
      /\ WritesOnlyItsSlot(ZeroDetails, asset, prefix)
      /\ asset = NativeAsset =>
           LET fresh == addAssetDetailsToOperationDetails(ZeroDetails, asset, prefix).details
           IN /\ fresh[SlotOf(prefix).code] = EmptyString
              /\ fresh[SlotOf(prefix).issuer] = EmptyString

\* a sell offer of a credit asset for the native asset: the buying slot holds
\* the type only, the selling slot the triplet, the other two slots nothing
C14_Witness ==
  /\ Done /\ result.status = "ok" /\ TheType = OperationTypeManageSellOffer
  /\ TheOperation.Body.op.Buying = NativeAsset
  /\ TheOperation.Body.op.Selling = UsdAsset
  /\ TheDetails.BuyingAssetType = "native" /\ TheDetails.BuyingAssetCode = EmptyString
  /\ TheDetails.SellingAssetCode = UsdAsset.Code
  /\ TheDetails.AssetType = "" /\ TheDetails.SourceAssetType = ""
  /\ WritesOnlyItsSlot(TheDetails, LongAsset, "source")

\* C15: for both path-payment kinds the record's path has the length of the
\* operation's path and its k-th element is the type, code and issuer
\* triplet of the operation's k-th path asset; an empty path gives an empty
\* sequence, never an absent one.
C15_PathMirrorsOperationPath ==
  (PathPaymentDone /\ result.status = "ok") =>
    LET path == TheOperation.Body.op.Path
    IN /\ ~TheDetails.Path.isNil
       /\ Len(TheDetails.Path.elems) = Len(path)
       /\ \A k \in 1 .. Len(path) :
            path[k] \in ExtractableAssets =>
              TheDetails.Path.elems[k] =
                Path(AssetTypeName(path[k]),
                     IF path[k].Type = AssetTypeAssetTypeNative
                     THEN EmptyString ELSE Address(path[k].Issuer),
                     IF path[k].Type = AssetTypeAssetTypeNative
                     THEN EmptyString ELSE path[k].Code)

ContractAssetDone == Done /\ input.call = "asset"

TheContractId == input.ledgerEntry.Data.ContractData.Contract.ContractId

\* the entry is a contract instance with a storage
IsInstanceEntry ==
  /\ input.ledgerEntry.Data.Type = "ContractData"
  /\ input.ledgerEntry.Data.ContractData.Key.Type = "ScvLedgerKeyContractInstance"
  /\ input.ledgerEntry.Data.ContractData.Val.Type = "ScvContractInstance"
  /\ ~input.ledgerEntry.Data.ContractData.Val.Storage.isNil

\* the credit asset built from the code and issuer of the entry's asset
\* info, or nil when the entry has no well-shaped asset info
InfoAsset ==
  IF ~IsInstanceEntry THEN NilAsset
  ELSE LET info == FirstAssetInfo(input.ledgerEntry.Data.ContractData.Val.Storage.elems)
       IN IF info.isNil THEN NilAsset ELSE AssetOfAssetInfo(info.value)

\* the asset info derives another contract id than the entry's
InfoDerivesDifferentId ==
  /\ ~InfoAsset.isNil
  /\ ~TheContractId.isNil
  /\ ContractID(InfoAsset.asset, input.passphrase) # TheContractId.value

HasNativeContractId ==
  /\ ~TheContractId.isNil
  /\ TheContractId.value = ContractID(NativeAsset, input.passphrase)

\* a returned asset is the native asset or the asset of the asset info, and
\* the entry's contract id is the id derived from it under the passphrase
ReturnedAssetIsVerified ==
  ~result.isNil =>
    /\ result.asset = NativeAsset \/ result = InfoAsset
    /\ ~TheContractId.isNil
    /\ TheContractId.value = ContractID(result.asset, input.passphrase)

ContractBalanceDone == Done /\ input.call = "balance"

TheContractData == input.ledgerEntry.Data.ContractData

\* the entry has the shape of a balance entry of the Stellar Asset Contract:
\* the key is the vector (Balance, contract address) and the value the map
\* (amount: i128, authorized: bool, clawback: bool), under a contract id
IsBalanceEntry ==
  /\ input.ledgerEntry.Data.Type = "ContractData"
  /\ ~TheContractId.isNil
  /\ TheContractData.Key.Type = "ScvVec" /\ ~TheContractData.Key.Vec.isNil
  /\ Len(TheContractData.Key.Vec.elems) = 2
  /\ TheContractData.Key.Vec.elems[1] = ScSymbol("Balance")
  /\ TheContractData.Key.Vec.elems[2].Type = "ScvAddress"
  /\ TheContractData.Key.Vec.elems[2].Address.Type = "Contract"
  /\ TheContractData.Val.Type = "ScvMap" /\ ~TheContractData.Val.Map.isNil
  /\ Len(TheContractData.Val.Map.elems) = 3
  /\ \A k \in 1 .. 3 :
       /\ TheContractData.Val.Map.elems[k].Key.Type = "ScvSymbol"
       /\ TheContractData.Val.Map.elems[k].Key.Sym = <<"amount", "authorized", "clawback">>[k]
       /\ TheContractData.Val.Map.elems[k].Val.Type = <<"ScvI128", "ScvBool", "ScvBool">>[k]

TheAmount == TheContractData.Val.Map.elems[1].Val.I128

\* C17: the returned amount is never negative.  With ok = true the amount is
\* Hi * 2^64 + Lo of the entry's i128 (kept as the words Hi and Lo, Lo
\* unsigned, so that the amount is negative exactly when Hi is) and Hi >= 0,
\* and the holder is the contract of the key; when Hi is negative or the
\* entry fails a check of its shape, the outcome is the zero holder, a nil
\* amount and ok = false.
C17_BalanceNeverNegative ==
  ContractBalanceDone =>
    /\ result.ok =>
         /\ IsBalanceEntry
         /\ ~result.amt.isNil
         /\ result.amt.Hi = TheAmount.Hi /\ result.amt.Lo = TheAmount.Lo
         /\ result.amt.Hi >= 0 /\ result.amt.Lo >= 0
         /\ result.holder = TheContractData.Key.Vec.elems[2].Address.ContractId
    /\ ~result.ok => (result.holder = ZeroHash /\ result.amt.isNil)
    /\ ~IsBalanceEntry => ~result.ok
    /\ (IsBalanceEntry /\ TheAmount.Hi < 0) => ~result.ok

\* a balance of 2^64 + MaxWord
C17_Witness ==
  /\ ContractBalanceDone /\ IsBalanceEntry
  /\ TheAmount = [Hi |-> 1, Lo |-> MaxWord]
  /\ result.ok
  /\ result.amt = [isNil |-> FALSE, Hi |-> 1, Lo |-> MaxWord]
  /\ result.holder = Hash("", LongAsset)

\* the entry the change is about, when it holds one
TheChangedEntry == ExtractEntryFromChange(input.ledgerChange)

\* C18: TransformConfigSetting skips a ledger entry that does not contain a
\* config setting: it returns the empty ConfigSettingOutput with a nil error
\* instead of failing.
C18_NonConfigEntryIsSkipped ==
  (Done /\ TheChangedEntry.ok /\ TheChangedEntry.ledgerEntry.Data.Type # "ConfigSetting") =>
    /\ result.status = "ok"
    /\ result.err = NoError
    /\ result.output = ZeroConfigSettingOutput

\* C19: the transform never reads the per-operation result list, nor the
\* operation list of the sponsorship scan, out of range: with an accessible
\* result list shorter than operationIndex + 1 it returns an error or a
\* record.
C19_NoOutOfRangeAccess ==
  Done =>
    /\ ~(result.status = "panic" /\ result.err.msg = "index out of range")
    /\ (TheTransaction.ResultsOk /\ input.operationIndex >= Len(TheTransaction.Results)) =>
         result.status \in {"ok", "error"}

\* the assets an operation of an asset-carrying kind hands to the asset
\* extraction
AssetsOf(body) ==
  CASE body.Type = OperationTypePayment -> {body.op.Asset}
    [] body.Type = OperationTypePathPaymentStrictReceive -> {body.op.SendAsset, body.op.DestAsset}
    [] body.Type = OperationTypePathPaymentStrictSend -> {body.op.SendAsset, body.op.DestAsset}
    [] body.Type \in {OperationTypeManageBuyOffer, OperationTypeManageSellOffer,
                      OperationTypeCreatePassiveSellOffer} -> {body.op.Selling, body.op.Buying}
    [] body.Type = OperationTypeChangeTrust -> {body.op.Line}
    [] body.Type = OperationTypeAllowTrust ->
         {ToAsset(body.op.Asset, ToAccountId(SourceOf(TheOperation)))}
    [] body.Type = OperationTypeClawback -> {body.op.Asset}
    [] body.Type = OperationTypeSetTrustLineFlags -> {body.op.Asset}
    [] OTHER -> {}

\* C20: for every kind that carries an asset, a failure of the asset
\* extraction aborts the transform with an error and no record, as it does
\* for payment; no record is returned with an asset slot left empty because
\* the extraction failed.
C20_FailedExtractionAborts ==
  (Done /\ TheType \in AssetKinds /\ HoldsPayload(TheOperation.Body, TheType)
        /\ \E asset \in AssetsOf(TheOperation.Body) : asset \notin ExtractableAssets) =>
    /\ result.status # "ok"
    /\ result.output = ZeroOperationOutput

\* the fields of Details that only the revoke_sponsorship arm assigns from a
\* ledger key or a signer
RevokeFields ==
  {"AccountID", "ClaimableBalanceID", "DataAccountID", "DataName", "OfferID",
   "TrustlineAccountID", "TrustlineAsset", "SignerAccountID", "SignerKey"}

\* the field group of a revoke_sponsorship payload, with the values the
\* payload gives it; the empty record for a ledger key of another type and
\* for an unknown sub-kind
RevokeGroup(op) ==
  IF op.Type = RevokeSponsorshipTypeRevokeSponsorshipSigner
  THEN [SignerAccountID |-> Address(op.Signer.AccountId),
        SignerKey |-> Address(op.Signer.SignerKey)]
  ELSE IF op.Type # RevokeSponsorshipTypeRevokeSponsorshipLedgerEntry THEN << >>
  ELSE CASE op.LedgerKey.Type = LedgerEntryTypeAccount ->
              [AccountID |-> Address(op.LedgerKey.AccountId)]
         [] op.LedgerKey.Type = LedgerEntryTypeClaimableBalance ->
              [ClaimableBalanceID |->
                 HexEncode(<<0, 0, 0, op.LedgerKey.BalanceId.Type>>
                           \o op.LedgerKey.BalanceId.Hash)]
         [] op.LedgerKey.Type = LedgerEntryTypeData ->
              [DataAccountID |-> Address(op.LedgerKey.AccountId),
               DataName |-> op.LedgerKey.DataName]
         [] op.LedgerKey.Type = LedgerEntryTypeOffer ->
              [OfferID |-> op.LedgerKey.OfferId]
         [] op.LedgerKey.Type = LedgerEntryTypeTrustline ->
              [TrustlineAccountID |-> Address(op.LedgerKey.AccountId),
               TrustlineAsset |-> StringCanonical(op.LedgerKey.Asset)]
         [] OTHER -> << >>

\* a revoke_sponsorship record was returned for a well-formed payload
RevokeRecordReturned ==
  /\ Done
  /\ TheType = OperationTypeRevokeSponsorship
  /\ HoldsPayload(TheOperation.Body, TheType)
  /\ result.status = "ok"

\* the record's revoke fields are all at their zero values
EveryRevokeFieldEmpty == \A f \in RevokeFields : TheDetails[f] = ZeroDetails[f]

\* C21: a returned revoke_sponsorship record carries exactly the field group
\* of its sub-kind (ledger entry: the fields of the key's type among account,
\* claimable balance, data, offer, trustline; signer: signer account and
\* signer key) with the payload's values and leaves every other revoke field
\* at its zero value; a ledger key of another type, or an unknown sub-kind,
\* never yields a successful record whose revoke fields are all empty.
C21_RevokeRecordCarriesItsGroup ==
  RevokeRecordReturned =>
    LET group == RevokeGroup(TheOperation.Body.op)
    IN /\ \A f \in DOMAIN group : TheDetails[f] = group[f] /\ group[f] # ZeroDetails[f]
       /\ \A f \in RevokeFields \ DOMAIN group : TheDetails[f] = ZeroDetails[f]
       /\ ~EveryRevokeFieldEmpty

\* the part of C21 the code keeps: the sub-kinds and key types the two
\* switches name give their own group and nothing else
C21_NamedKindsCarryTheirGroup ==
  (RevokeRecordReturned /\ DOMAIN RevokeGroup(TheOperation.Body.op) # {}) =>
    LET group == RevokeGroup(TheOperation.Body.op)
    IN /\ \A f \in DOMAIN group : TheDetails[f] = group[f] /\ group[f] # ZeroDetails[f]
       /\ \A f \in RevokeFields \ DOMAIN group : TheDetails[f] = ZeroDetails[f]

\* a record returned for a liquidity pool key or for an unknown sub-kind
C21_SilentFallThrough ==
  RevokeRecordReturned /\ DOMAIN RevokeGroup(TheOperation.Body.op) = {}

====
